---- MODULE Spec2Model ----
(***************************************************************************)
(* harness-cli: one agent run.  Spec is the data path:                     *)
(*                                                                         *)
(*   child stdout line --parse_<agent>_line--> raw events                  *)
(*     --Event::stamp / tx.send--> supervisor stream                       *)
(*     --NormalizeState::enrich--> stream read by the consumer             *)
(*                                                                         *)
(* SupSpec is the process supervisor (child, reader task, bounded channel, *)
(* consumer, cancellation token, process-group guard); FairSupSpec adds    *)
(* its scheduling.                                                         *)
(*                                                                         *)
(* Option<T> is modelled as a sequence of length 0 (None) or 1 (Some(v)).  *)
(* Strings are TLA+ strings, "" being the empty string.  f64 costs are     *)
(* modelled as small naturals (hundredths of a dollar), on which the       *)
(* float additions of the source are exact.                                *)
(***************************************************************************)
EXTENDS Integers, Sequences, FiniteSets, TLC

VARIABLES
    agent,            \* AgentKind of the run: which adapter parses stdout
    transcript,       \* stdout lines the reader task has taken so far
    pending,          \* parse results of the current line not yet sent
    clock,            \* wall clock read by now_ms()
    raw,              \* items sent into the supervisor's channel, in order
    state,            \* NormalizeState of normalize_stream
    out,              \* items delivered to the consumer, in order
    origin,           \* for each item of out: its index in raw, 0 if synthetic
    cancelRequested,  \* the CancellationToken has been cancelled
    endedBy,          \* how the reader loop ended: "none" | "eof" | "cancel" | "io"
    phase             \* reader task: "reading" | "after_loop" | "waiting" | "closed"

\* the data path: adapters and normalizer over one run's stdout
data == <<agent, transcript, pending, clock, raw, state, out, origin,
          cancelRequested, endedBy, phase>>

VARIABLES
    child,            \* the child process: "running" | "exited"
    status_code,      \* status.code().unwrap_or(-1) of the exited child
    stdout,           \* write end of the child's stdout pipe: "open" | "closed"
    stderr,           \* the stderr collector task: "open" while it reads the
                      \*   pipe, "closed" once it has returned its buffer
    pipe,             \* stdout lines written and not yet read
    taken,            \* stdout lines reader.next_line() has returned, in order
    todo,             \* `events` of the current line still to be sent
    pc,               \* reader task: "select" | "send" | "send_io" | "after_loop"
                      \*   | "wait" | "send_failed" | "done"
    chan,             \* contents of the mpsc channel
    sent,             \* every item tx.send accepted, with the line it came from
    rx,               \* the consumer's end of the stream: "open" | "dropped"
    got,              \* items the consumer has received, in order
    token,            \* CancellationToken::is_cancelled()
    cancels,          \* calls of CancellationToken::cancel() so far
    lines_at_cancel,  \* Len(taken) at the first cancel() call, -1 before it
    killed,           \* ChildGuard.killed
    term_sent,        \* SIGTERM signals delivered to the process group
    kill_sent,        \* SIGKILL signals delivered to the process group
    timer             \* the 2 s thread of ChildGuard::kill: "idle" | "armed" | "fired"

\* the supervisor: child, reader task, channel, consumer, token and guard
sup == <<child, status_code, stdout, stderr, pipe, taken, todo, pc, chan, sent, rx, got,
         token, cancels, lines_at_cancel, killed, term_sent, kill_sent, timer>>

VARIABLES
    args,             \* a function call looked at on its own: its arguments
    locals,           \* the local variables of that call, as far as it has run
    ret               \* what the call has returned, None while it runs

\* one call of a function outside the streaming path
aux == <<args, locals, ret>>

vars == <<data, sup, aux>>

---------------------------------------------------------------------------
(* Bounds of the model *)

MaxLines == 3     \* stdout lines per run
MaxClock == 2     \* distinct wall-clock readings per run
MaxCancels == 2   \* calls of cancel() per run
ChannelDepth == 2 \* capacity of the mpsc channel (256 in process.rs)

---------------------------------------------------------------------------
(* Option<T> *)

None == <<>>
Some(v) == <<v>>
is_none(o) == Len(o) = 0
is_some(o) == Len(o) = 1
unwrap(o) == o[1]
unwrap_or(o, d) == IF is_some(o) THEN o[1] ELSE d

---------------------------------------------------------------------------
(* event.rs *)

UsageData(i, o, cr, cc, cost) ==
    [input_tokens |-> i, output_tokens |-> o, cache_read_tokens |-> cr,
     cache_creation_tokens |-> cc, cost_usd |-> cost]

UsageDefault == UsageData(None, None, None, None, None)

SessionStart(sid, ag, model, cwd) ==
    [type |-> "session_start", session_id |-> sid, agent |-> ag,
     model |-> model, cwd |-> cwd, timestamp_ms |-> 0]

TextDelta(text) ==
    [type |-> "text_delta", text |-> text, timestamp_ms |-> 0]

Message(role, text) ==
    [type |-> "message", role |-> role, text |-> text, usage |-> None,
     timestamp_ms |-> 0]

ToolStart(call_id, tool_name) ==
    [type |-> "tool_start", call_id |-> call_id, tool_name |-> tool_name,
     timestamp_ms |-> 0]

ToolEnd(call_id, tool_name, success) ==
    [type |-> "tool_end", call_id |-> call_id, tool_name |-> tool_name,
     success |-> success, timestamp_ms |-> 0]

UsageDelta(usage) ==
    [type |-> "usage_delta", usage |-> usage, timestamp_ms |-> 0]

ResultEvent(success, text, sid, duration, cost, usage) ==
    [type |-> "result", success |-> success, text |-> text,
     session_id |-> sid, duration_ms |-> duration, total_cost_usd |-> cost,
     usage |-> usage, timestamp_ms |-> 0]

ErrorEvent(message, code) ==
    [type |-> "error", message |-> message, code |-> code,
     timestamp_ms |-> 0]

\* crate::Result<Event>: Ok(event) or Err(error)
Ok(e) == [ok |-> TRUE, ev |-> e]
Err(kind) == [ok |-> FALSE, err |-> kind]

\* now_ms(): the wall clock, after the epoch
now_ms == clock

\* Event::stamp: every variant gets timestamp_ms = now_ms()
stamp(e) == [e EXCEPT !.timestamp_ms = now_ms]

---------------------------------------------------------------------------
(* A stdout line.  json = FALSE is a line serde_json rejects; otherwise the *)
(* record holds the fields of the JSON object the adapters look at, each    *)
(* absent (None) or present (Some).  content is /message/content, item is   *)
(* the Codex item, and for OpenCode part, text, call_id, reason, cost and   *)
(* tokens are the members of "part".                                        *)

Block(type, text, id, name, is_error) ==
    [type |-> type, text |-> text, id |-> id, name |-> name, is_error |-> is_error]

Item(type, id, text, role, exit_code) ==
    [type |-> type, id |-> id, text |-> text, role |-> role, exit_code |-> exit_code]

Tokens(i, o, cr, cw, cost) ==
    [input |-> i, output |-> o, cache_read |-> cr, cache_write |-> cw, cost |-> cost]

J0 == [json |-> TRUE, type |-> None, subtype |-> None, session_id |-> None,
       model |-> None, cwd |-> None, text |-> None, content |-> <<>>,
       item |-> None, usage |-> None, cost |-> None, duration_ms |-> None,
       reason |-> None, is_error |-> None, call_id |-> None,
       tool |-> None, success |-> None, part |-> FALSE]

J(type) == [J0 EXCEPT !.type = Some(type)]

Garbage == [J0 EXCEPT !.json = FALSE]

\* Claude Code (claude.rs:16-20, tests/stream_integration.rs:21-31)
ClInit == [J("system") EXCEPT !.subtype = Some("init"), !.session_id = Some("s1"),
                              !.model = Some("m"), !.cwd = Some("/tmp")]
ClAssistant == [J("assistant") EXCEPT
                  !.content = <<Block("text", Some("a"), None, None, None),
                                Block("tool_use", None, Some("t1"), Some("Bash"), None)>>]
ClText == [J("assistant") EXCEPT
             !.content = <<Block("text", Some("a"), None, None, None)>>]
ClUser == [J("user") EXCEPT !.content = <<Block("tool_result", None, Some("t1"), None, Some(FALSE))>>]
ClStream == [J("stream_event") EXCEPT !.text = Some("d"),
               !.usage = Some(Tokens(Some(1), Some(1), None, None, Some(1)))]
ClResult == [J("result") EXCEPT !.subtype = Some("success"), !.text = Some("r"),
               !.session_id = Some("s1"), !.duration_ms = Some(5), !.cost = Some(1)]
ClResultBare == [J("result") EXCEPT !.subtype = Some("error_max_turns"),
                   !.usage = Some(Tokens(Some(2), Some(2), None, None, Some(2)))]

ClaudeLines == {Garbage, ClInit, ClAssistant, ClText, ClUser, ClStream, ClResult, ClResultBare}

\* Codex (codex.rs:15-22, tests/stream_integration.rs:34-46)
CxStarted == [J("thread.started") EXCEPT !.session_id = Some("s1")]
CxAgentMessage == [J("item.completed") EXCEPT
                     !.item = Some(Item(Some("agent_message"), Some("i1"), Some("a"), None, None))]
CxUserMessage == [J("item.completed") EXCEPT
                     !.item = Some(Item(Some("message"), Some("i2"), Some("u"), Some("user"), None))]
CxSystemMessage == [J("item.completed") EXCEPT
                     !.item = Some(Item(Some("message"), Some("i3"), Some("x"), Some("system"), None))]
CxCmdStarted == [J("item.started") EXCEPT
                     !.item = Some(Item(Some("command_execution"), Some("c1"), None, None, None))]
CxCmdCompleted == [J("item.completed") EXCEPT
                     !.item = Some(Item(Some("command_execution"), Some("c1"), None, None, Some(0)))]
CxTurnCompleted == [J("turn.completed") EXCEPT
                     !.usage = Some(Tokens(Some(1), Some(1), Some(1), None, None))]
CxTurnFailed == [J("turn.failed") EXCEPT !.text = Some("boom")]

CodexLines == {Garbage, CxStarted, CxAgentMessage, CxUserMessage, CxSystemMessage,
               CxCmdStarted, CxCmdCompleted, CxTurnCompleted, CxTurnFailed}

\* Cursor (cursor.rs:16-21, tests/stream_integration.rs:49-61)
CuInit == [J("system") EXCEPT !.subtype = Some("init"), !.session_id = Some("s1"),
                              !.model = Some("m"), !.cwd = Some("/tmp")]
CuUser == [J("user") EXCEPT !.content = <<Block("text", Some("u"), None, None, None)>>]
CuAssistant == [J("assistant") EXCEPT !.content = <<Block("text", Some("a"), None, None, None)>>]
CuToolStarted == [J("tool_call") EXCEPT !.subtype = Some("started"),
                     !.call_id = Some("t1"), !.tool = Some("read")]
CuToolCompleted == [J("tool_call") EXCEPT !.subtype = Some("completed"),
                     !.call_id = Some("t1"), !.tool = Some("read")]
CuResult == [J("result") EXCEPT !.subtype = Some("success"), !.text = Some("r"),
               !.session_id = Some("s1"), !.duration_ms = Some(5),
               !.is_error = Some(FALSE)]

CursorLines == {Garbage, CuInit, CuUser, CuAssistant, CuToolStarted, CuToolCompleted,
                CuResult}

\* OpenCode (opencode.rs:19-23, tests/stream_integration.rs:64-72)
OcStepStart == [J("step_start") EXCEPT !.session_id = Some("s1"), !.part = TRUE]
OcText == [J("text") EXCEPT !.session_id = Some("s1"), !.part = TRUE, !.text = Some("a")]
OcTextB == [J("text") EXCEPT !.session_id = Some("s1"), !.part = TRUE, !.text = Some("b")]
OcToolUse == [J("tool_use") EXCEPT !.session_id = Some("s1"), !.part = TRUE,
                !.call_id = Some("t1"), !.tool = Some("bash"),
                !.subtype = Some("completed")]
OcFinishTools == [J("step_finish") EXCEPT !.session_id = Some("s1"), !.part = TRUE,
                    !.reason = Some("tool-calls"), !.cost = Some(1),
                    !.usage = Some(Tokens(Some(1), Some(1), None, None, None))]
OcFinishStop == [J("step_finish") EXCEPT !.session_id = Some("s1"), !.part = TRUE,
                    !.reason = Some("stop"), !.cost = Some(2),
                    !.usage = Some(Tokens(Some(2), Some(1), Some(1), Some(1), None))]

OpenCodeLines == {Garbage, OcStepStart, OcText, OcTextB, OcToolUse, OcFinishTools, OcFinishStop}

AgentKind == {"claude", "codex", "cursor", "opencode"}

Lines(a) ==
    CASE a = "claude"   -> ClaudeLines
      [] a = "codex"    -> CodexLines
      [] a = "cursor"   -> CursorLines
      [] a = "opencode" -> OpenCodeLines

---------------------------------------------------------------------------
(* Helpers shared by the adapters *)

\* v.get(k).and_then(as_str).unwrap_or(d)
str_or(o, d) == unwrap_or(o, d)

\* iter().filter_map(text of the blocks of type ty).collect().join("")
RECURSIVE join_text(_, _)
join_text(blocks, ty) ==
    IF blocks = <<>> THEN ""
    ELSE LET b == Head(blocks)
             t == IF b.type = ty /\ is_some(b.text) THEN unwrap(b.text) ELSE ""
         IN  t \o join_text(Tail(blocks), ty)

\* concatenation of a sequence of sequences
RECURSIVE flatten(_)
flatten(ss) == IF ss = <<>> THEN <<>> ELSE Head(ss) \o flatten(Tail(ss))

\* the events F yields for each block, in block order
flat_map(blocks, F(_)) == flatten([i \in 1..Len(blocks) |-> F(blocks[i])])

ParseError == "ParseError"

---------------------------------------------------------------------------
(* agents/claude.rs *)

parse_usage_data(u) ==
    UsageData(u.input, u.output, u.cache_read, u.cache_write, u.cost)

parse_claude_line(line) ==
    IF ~line.json THEN <<Err(ParseError)>>
    ELSE IF is_none(line.type) THEN <<>>
    ELSE LET event_type == unwrap(line.type) IN
    CASE event_type = "system" ->
           IF str_or(line.subtype, "") = "init"
           THEN <<Ok(SessionStart(str_or(line.session_id, ""), "claude",
                                  line.model, line.cwd))>>
           ELSE <<>>
      [] event_type = "assistant" ->
           LET tool(b) == IF b.type = "tool_use"
                          THEN <<Ok(ToolStart(str_or(b.id, ""), str_or(b.name, "unknown")))>>
                          ELSE <<>>
               events == flat_map(line.content, tool)
               text == join_text(line.content, "text")
           IN  IF text # "" THEN <<Ok(Message("assistant", text))>> \o events
                            ELSE events
      [] event_type = "user" ->
           LET res(b) == IF b.type = "tool_result"
                         THEN <<Ok(ToolEnd(str_or(b.id, ""), "unknown",
                                            ~unwrap_or(b.is_error, FALSE)))>>
                         ELSE <<>>
           IN  flat_map(line.content, res)
      [] event_type = "stream_event" ->
           LET delta_text == str_or(line.text, "")
               delta == IF delta_text # "" THEN <<Ok(TextDelta(delta_text))>> ELSE <<>>
               usage == IF is_some(line.usage)
                        THEN LET u == parse_usage_data(unwrap(line.usage)) IN
                             IF is_some(u.input_tokens) \/ is_some(u.output_tokens)
                                  \/ is_some(u.cost_usd)
                             THEN <<Ok(UsageDelta(u))>> ELSE <<>>
                        ELSE <<>>
           IN  delta \o usage
      [] event_type = "result" ->
           LET success == str_or(line.subtype, "success") = "success"
               usage == IF is_some(line.usage)
                        THEN Some(parse_usage_data(unwrap(line.usage))) ELSE None
           IN  <<Ok(ResultEvent(success, str_or(line.text, ""),
                                str_or(line.session_id, ""), line.duration_ms,
                                line.cost, usage))>>
      [] OTHER -> <<>>

---------------------------------------------------------------------------
(* agents/codex.rs *)

\* the "item.completed" arm; "item.created" re-dispatches to it
codex_item_completed(line) ==
    IF is_none(line.item) THEN <<>>
    ELSE LET item == unwrap(line.item) IN
    IF is_none(item.type) THEN <<>>
    ELSE LET item_type == unwrap(item.type) IN
    CASE item_type \in {"agent_message", "message"} ->
           LET text == str_or(item.text, "")
               role_str == str_or(item.role, "assistant")
               role == CASE role_str = "user" -> "user"
                         [] role_str = "system" -> "system"
                         [] OTHER -> "assistant"
           IN  IF text = "" THEN <<>> ELSE <<Ok(Message(role, text))>>
      [] item_type \in {"command_execution", "command", "shell"} ->
           LET success == IF is_some(item.exit_code) THEN unwrap(item.exit_code) = 0
                                                     ELSE TRUE
           IN  <<Ok(ToolEnd(str_or(item.id, "unknown"), "shell", success))>>
      [] item_type = "file_change" ->
           <<Ok(ToolStart(str_or(item.id, "unknown"), "file_change")),
             Ok(ToolEnd(str_or(item.id, "unknown"), "file_change", TRUE))>>
      [] OTHER -> <<>>

parse_codex_line(line) ==
    IF ~line.json THEN <<Err(ParseError)>>
    ELSE IF is_none(line.type) THEN <<>>
    ELSE LET event_type == unwrap(line.type) IN
    CASE event_type = "thread.started" ->
           <<Ok(SessionStart(str_or(line.session_id, "unknown"), "codex",
                             line.model, None))>>
      [] event_type = "item.started" ->
           IF is_none(line.item) THEN <<>>
           ELSE LET item == unwrap(line.item) IN
                IF is_none(item.type) THEN <<>>
                ELSE IF unwrap(item.type) = "command_execution"
                THEN <<Ok(ToolStart(str_or(item.id, "unknown"), "shell"))>>
                ELSE <<>>
      [] event_type \in {"item.completed", "item.created"} ->
           codex_item_completed(line)
      [] event_type = "turn.completed" ->
           LET usage == IF is_some(line.usage)
                        THEN LET u == unwrap(line.usage) IN
                             Some(UsageData(u.input, u.output, u.cache_read, None, None))
                        ELSE None
               delta == IF is_some(usage) THEN <<Ok(UsageDelta(unwrap(usage)))>>
                                          ELSE <<>>
           IN  delta \o <<Ok(ResultEvent(TRUE, "", "", None, None, usage))>>
      [] event_type = "turn.failed" ->
           <<Ok(ErrorEvent(str_or(line.text, "turn failed"), Some("turn_failed")))>>
      [] event_type = "thread.completed" ->
           <<Ok(ResultEvent(TRUE, str_or(line.text, ""), str_or(line.session_id, ""),
                            line.duration_ms, None, None))>>
      [] event_type = "error" ->
           <<Ok(ErrorEvent(str_or(line.text, "unknown error"), line.subtype))>>
      [] OTHER -> <<>>

---------------------------------------------------------------------------
(* agents/cursor.rs *)

extract_message_text(line) == join_text(line.content, "text")

parse_cursor_line(line) ==
    IF ~line.json THEN <<Err(ParseError)>>
    ELSE IF is_none(line.type) THEN <<>>
    ELSE LET event_type == unwrap(line.type) IN
    CASE event_type = "system" ->
           IF str_or(line.subtype, "") = "init"
           THEN <<Ok(SessionStart(str_or(line.session_id, ""), "cursor",
                                  line.model, line.cwd))>>
           ELSE <<>>
      [] event_type = "assistant" ->
           LET text == extract_message_text(line) IN
           IF text = "" THEN <<>> ELSE <<Ok(Message("assistant", text))>>
      [] event_type = "user" ->
           LET text == extract_message_text(line) IN
           IF text = "" THEN <<>> ELSE <<Ok(Message("user", text))>>
      [] event_type = "tool_call" ->
           LET subtype == str_or(line.subtype, "")
               call_id == str_or(line.call_id, "")
               tool_name == str_or(line.tool, "unknown")
           IN  CASE subtype = "started" -> <<Ok(ToolStart(call_id, tool_name))>>
                 [] subtype = "completed" -> <<Ok(ToolEnd(call_id, tool_name, TRUE))>>
                 [] OTHER -> <<>>
      [] event_type = "result" ->
           LET success == str_or(line.subtype, "success") = "success"
                            /\ ~unwrap_or(line.is_error, FALSE)
           IN  <<Ok(ResultEvent(success, str_or(line.text, ""),
                                str_or(line.session_id, ""), line.duration_ms,
                                None, None))>>
      [] OTHER -> <<>>

---------------------------------------------------------------------------
(* agents/opencode.rs *)

\* part.get("tokens")? ; cost_usd is part.cost
extract_opencode_usage(line) ==
    IF is_none(line.usage) THEN None
    ELSE LET t == unwrap(line.usage) IN
         Some(UsageData(t.input, t.output, t.cache_read, t.cache_write, line.cost))

\* mutant: a Result at every step_finish, whatever its reason
opencode_step_finish_always(line) ==
    IF ~line.part THEN <<>>
    ELSE LET usage == extract_opencode_usage(line)
             delta == IF is_some(usage) THEN <<Ok(UsageDelta(unwrap(usage)))>> ELSE <<>>
         IN  delta \o <<Ok(ResultEvent(TRUE, "", str_or(line.session_id, ""), None,
                                        line.cost, usage))>>

\* mutant: every step_finish with a reason ends the run
opencode_step_finish_any_reason(line) ==
    IF ~line.part THEN <<>>
    ELSE LET reason == str_or(line.reason, "")
             session_id == str_or(line.session_id, "")
             usage == extract_opencode_usage(line)
             delta == IF is_some(usage) THEN <<Ok(UsageDelta(unwrap(usage)))>>
                                        ELSE <<>>
         IN  IF reason # ""
             THEN delta \o <<Ok(ResultEvent(TRUE, "", session_id, None,
                                            line.cost, usage))>>
             ELSE delta

\* the "step_finish" arm of parse_typed_event
opencode_step_finish(line) ==
    IF ~line.part THEN <<>>
    ELSE LET reason == str_or(line.reason, "")
             session_id == str_or(line.session_id, "")
             usage == extract_opencode_usage(line)
             delta == IF is_some(usage) THEN <<Ok(UsageDelta(unwrap(usage)))>>
                                        ELSE <<>>
         IN  IF reason = "stop"
             THEN delta \o <<Ok(ResultEvent(TRUE, "", session_id, None,
                                            line.cost, usage))>>
             ELSE delta

parse_typed_event(event_type, line) ==
    CASE event_type = "step_start" ->
           <<Ok(SessionStart(str_or(line.session_id, ""), "opencode", None, None))>>
      [] event_type = "text" ->
           LET text == str_or(line.text, "") IN
           IF text = "" THEN <<>> ELSE <<Ok(Message("assistant", text))>>
      [] event_type = "tool_use" ->
           IF ~line.part THEN <<>>
           ELSE LET call_id == str_or(line.call_id, "")
                    tool_name == str_or(line.tool, "unknown")
                    success == str_or(line.subtype, "completed") = "completed"
                IN  <<Ok(ToolStart(call_id, tool_name)),
                      Ok(ToolEnd(call_id, tool_name, success))>>
      [] event_type = "step_finish" -> opencode_step_finish(line)
      [] event_type \in {"session.start", "session.init", "init"} ->
           <<Ok(SessionStart(str_or(line.session_id, ""), "opencode",
                             line.model, line.cwd))>>
      [] event_type \in {"message", "assistant"} ->
           LET text == str_or(line.text, "") IN
           IF text = "" THEN <<>> ELSE <<Ok(Message("assistant", text))>>
      [] event_type = "error" ->
           <<Ok(ErrorEvent(str_or(line.text, "unknown error"), line.subtype))>>
      [] event_type \in {"result", "done", "complete"} ->
           <<Ok(ResultEvent(unwrap_or(line.success, TRUE), str_or(line.text, ""),
                            str_or(line.session_id, ""), line.duration_ms,
                            None, None))>>
      [] OTHER -> <<>>

parse_opencode_line(line) ==
    IF ~line.json THEN <<Ok(TextDelta("raw"))>>
    ELSE IF is_some(line.type) THEN parse_typed_event(unwrap(line.type), line)
    ELSE <<>>

\* the parse_line closure each runner hands to spawn_and_stream
parse_line(a, line) ==
    CASE a = "claude"   -> parse_claude_line(line)
      [] a = "codex"    -> parse_codex_line(line)
      [] a = "cursor"   -> parse_cursor_line(line)
      [] a = "opencode" -> parse_opencode_line(line)

---------------------------------------------------------------------------
(* normalize.rs *)

\* mutant: the component is overwritten by the delta's instead of added to
add_component_overwrite(acc, o) == IF is_some(o) THEN o ELSE acc

\* *acc.get_or_insert(0) += v, when the delta carries the component
add_component(acc, o) == IF is_some(o) THEN Some(unwrap_or(acc, 0) + unwrap(o)) ELSE acc

accumulate_usage(st, usage) ==
    [st EXCEPT
       !.has_usage = TRUE,
       !.accumulated_usage =
          UsageData(add_component(@.input_tokens, usage.input_tokens),
                    add_component(@.output_tokens, usage.output_tokens),
                    add_component(@.cache_read_tokens, usage.cache_read_tokens),
                    add_component(@.cache_creation_tokens, usage.cache_creation_tokens),
                    add_component(@.cost_usd, usage.cost_usd))]

make_user_message(st, timestamp_ms) ==
    [type |-> "message", role |-> "user", text |-> unwrap_or(st.prompt, ""),
     usage |-> None, timestamp_ms |-> timestamp_ms]

\* mutant: seen_user_message is not set after the synthetic message
maybe_prepend_user_message_unflagged(st, event, timestamp_ms) ==
    IF ~st.seen_user_message /\ is_some(st.prompt)
    THEN [state |-> st, events |-> <<make_user_message(st, timestamp_ms), event>>]
    ELSE [state |-> st, events |-> <<event>>]

\* returns the new state and the event(s) to emit
maybe_prepend_user_message(st, event, timestamp_ms) ==
    IF ~st.seen_user_message /\ is_some(st.prompt)
    THEN [state |-> [st EXCEPT !.seen_user_message = TRUE],
          events |-> <<make_user_message(st, timestamp_ms), event>>]
    ELSE [state |-> st, events |-> <<event>>]

\* saturating_sub on u64
saturating_sub(a, b) == IF a >= b THEN a - b ELSE 0

\* mutant: the text of the Result is left as the adapter set it
fill_text_skipped(st, e) == e

\* Result: fill text from the last assistant message if empty
fill_text(st, e) ==
    IF e.text = "" /\ st.last_assistant_text # ""
    THEN [e EXCEPT !.text = st.last_assistant_text] ELSE e

\* mutant: the session_id of the state replaces the one of the Result
fill_session_id_overwrite(st, e) ==
    IF st.session_id # ""
    THEN [e EXCEPT !.session_id = st.session_id] ELSE e

\* Result: fill session_id if empty
fill_session_id(st, e) ==
    IF e.session_id = "" /\ st.session_id # ""
    THEN [e EXCEPT !.session_id = st.session_id] ELSE e

\* Result: compute duration from timestamps if not set
fill_duration(st, e) ==
    IF is_none(e.duration_ms) /\ st.start_timestamp_ms > 0 /\ e.timestamp_ms > 0
    THEN [e EXCEPT !.duration_ms =
             Some(saturating_sub(e.timestamp_ms, st.start_timestamp_ms))]
    ELSE e

\* mutant: a usage is also made up from the total cost of the Result
fill_usage_from_cost(st, e) ==
    IF is_none(e.usage) /\ st.has_usage
    THEN [e EXCEPT !.usage = Some(st.accumulated_usage)]
    ELSE IF is_none(e.usage) /\ is_some(e.total_cost_usd)
    THEN [e EXCEPT !.usage = Some(UsageData(None, None, None, None,
                                            e.total_cost_usd))]
    ELSE e

\* Result: fill usage from the accumulated deltas if not set
fill_usage(st, e) ==
    IF is_none(e.usage) /\ st.has_usage
    THEN [e EXCEPT !.usage = Some(st.accumulated_usage)] ELSE e

\* mutant: total_cost_usd is left as the adapter set it
fill_total_cost_skipped(e) == e

\* Result: fill total_cost_usd from the usage cost if not set
fill_total_cost(e) ==
    IF is_none(e.total_cost_usd) /\ is_some(e.usage) /\ is_some(unwrap(e.usage).cost_usd)
    THEN [e EXCEPT !.total_cost_usd = unwrap(e.usage).cost_usd] ELSE e

\* mutant: the synthetic UsageDelta is pushed after the Result
synthesize_usage_delta_after(st, events, ts) ==
    LET r == events[Len(events)]
    IN  IF ~st.seen_usage_delta /\ is_some(r.usage)
        THEN events \o <<[type |-> "usage_delta", usage |-> unwrap(r.usage),
                          timestamp_ms |-> ts]>>
        ELSE events

\* Result: synthesize a UsageDelta before the Result (the last of events)
\* if none was seen
synthesize_usage_delta(st, events, ts) ==
    LET n == Len(events)
        r == events[n]
    IN  IF ~st.seen_usage_delta /\ is_some(r.usage)
        THEN SubSeq(events, 1, n - 1)
               \o <<[type |-> "usage_delta", usage |-> unwrap(r.usage),
                     timestamp_ms |-> ts]>>
               \o <<r>>
        ELSE events

\* the Result arm of enrich
enrich_result(st, ev) ==
    LET e == fill_total_cost(fill_usage(st,
                 fill_duration(st, fill_session_id(st, fill_text(st, ev)))))
        ts == e.timestamp_ms
        pre == maybe_prepend_user_message(st, e, ts)
    IN  [state |-> pre.state,
         events |-> synthesize_usage_delta(pre.state, pre.events, ts)]

\* mutant: the SessionStart goes through the user-message prefix as well
enrich_session_start_prefixed(st, event) ==
    maybe_prepend_user_message(
        [st EXCEPT !.session_id = event.session_id,
                   !.start_timestamp_ms = event.timestamp_ms],
        event, event.timestamp_ms)

\* the SessionStart arm of enrich
enrich_session_start(st, event) ==
    LET e1 == IF is_none(event.model) THEN [event EXCEPT !.model = st.model]
                                      ELSE event
        e2 == IF is_none(e1.cwd) THEN [e1 EXCEPT !.cwd = st.cwd] ELSE e1
    IN  [state |-> [st EXCEPT !.session_id = event.session_id,
                              !.start_timestamp_ms = event.timestamp_ms],
         events |-> <<e2>>]

\* mutant: the adapter's user message does not set seen_user_message
enrich_user_message_unflagged(st, event) == [state |-> st, events |-> <<event>>]

\* the Message{role: User} arm of enrich
enrich_user_message(st, event) ==
    [state |-> [st EXCEPT !.seen_user_message = TRUE], events |-> <<event>>]

\* mutant: last_assistant_text keeps the first assistant text
enrich_assistant_message_keeps_first(st, event) ==
    maybe_prepend_user_message(
        IF st.last_assistant_text = "" THEN [st EXCEPT !.last_assistant_text = event.text]
                                       ELSE st,
        event, event.timestamp_ms)

\* the non-empty Message{role: Assistant} arm of enrich
enrich_assistant_message(st, event) ==
    maybe_prepend_user_message([st EXCEPT !.last_assistant_text = event.text],
                               event, event.timestamp_ms)

\* the UsageDelta arm of enrich
enrich_usage_delta(st, event) ==
    maybe_prepend_user_message(
        accumulate_usage([st EXCEPT !.seen_usage_delta = TRUE], event.usage),
        event, event.timestamp_ms)

\* mutant: a Message that reaches the `other` arm is dropped
enrich_other_drops_messages(st, event) ==
    LET ts == IF event.type \in {"text_delta", "tool_start", "tool_end", "error"}
              THEN event.timestamp_ms ELSE 0
    IN  IF event.type = "message" THEN [state |-> st, events |-> <<>>]
        ELSE maybe_prepend_user_message(st, event, ts)

\* the `other` arm of enrich
enrich_other(st, event) ==
    LET ts == IF event.type \in {"text_delta", "tool_start", "tool_end", "error"}
              THEN event.timestamp_ms ELSE 0
    IN  maybe_prepend_user_message(st, event, ts)

enrich(st, event) ==
    CASE event.type = "session_start" -> enrich_session_start(st, event)
      [] event.type = "message" /\ event.role = "user" ->
           enrich_user_message(st, event)
      [] event.type = "message" /\ event.role = "assistant" /\ event.text # "" ->
           enrich_assistant_message(st, event)
      [] event.type = "usage_delta" -> enrich_usage_delta(st, event)
      [] event.type = "result" -> enrich_result(st, event)
      [] OTHER -> enrich_other(st, event)

\* mutant: an error item marks the user message as seen
normalize_item_error_marks(st, item) ==
    IF item.ok
    THEN LET r == enrich(st, item.ev) IN
         [state |-> r.state, items |-> [i \in 1..Len(r.events) |-> Ok(r.events[i])]]
    ELSE [state |-> [st EXCEPT !.seen_user_message = TRUE], items |-> <<item>>]

\* normalize_stream: the scan closure applied to one item of the inner stream
normalize_item(st, item) ==
    IF item.ok
    THEN LET r == enrich(st, item.ev) IN
         [state |-> r.state, items |-> [i \in 1..Len(r.events) |-> Ok(r.events[i])]]
    ELSE [state |-> st, items |-> <<item>>]

\* NormalizeState built by normalize_stream(stream, config)
NormalizeState(cwd, model, prompt) ==
    [session_id |-> "", start_timestamp_ms |-> 0, last_assistant_text |-> "",
     accumulated_usage |-> UsageDefault, has_usage |-> FALSE, cwd |-> cwd,
     model |-> model, seen_user_message |-> FALSE, seen_usage_delta |-> FALSE,
     prompt |-> prompt]

---------------------------------------------------------------------------
(* process.rs: the reader task of spawn_and_stream, with the normalizer    *)
(* of lib.rs::run_task_with_cancel on the receiving end of the channel.    *)
(* The channel is FIFO and the normalizer reads no clock, so the items the *)
(* consumer gets are those of normalize_item applied to raw in order.      *)

\* the supervisor's variables in the data-path specification: held fixed
\* no function is looked at on its own
AuxIdle == args = <<>> /\ locals = <<>> /\ ret = <<>>

SupIdle ==
    /\ child = "running" /\ status_code = 0 /\ stdout = "open"
    /\ stderr = "open"
    /\ pipe = <<>> /\ taken = <<>> /\ todo = <<>> /\ pc = "select"
    /\ chan = <<>> /\ sent = <<>> /\ rx = "open" /\ got = <<>>
    /\ token = FALSE /\ cancels = 0 /\ lines_at_cancel = -1
    /\ killed = FALSE /\ term_sent = 0 /\ kill_sent = 0 /\ timer = "idle"

\* an item goes through tx.send and the normalizer to the consumer
Deliver(item) ==
    LET r == normalize_item(state, item)
        n == Len(r.items)
    IN  /\ raw' = Append(raw, item)
        /\ state' = r.state
        /\ out' = out \o r.items
        /\ origin' = origin \o [i \in 1..n |-> IF i = n THEN Len(raw) + 1 ELSE 0]

Init ==
    /\ agent \in AgentKind
    /\ transcript = <<>>
    /\ pending = <<>>
    /\ clock = 1
    /\ raw = <<>>
    /\ state \in {NormalizeState(Some("/cwd"), Some("fm"), p) : p \in {None, Some("P")}}
    /\ out = <<>>
    /\ origin = <<>>
    /\ cancelRequested = FALSE
    /\ endedBy = "none"
    /\ phase = "reading"
    /\ SupIdle
    /\ AuxIdle

\* time passes
Tick ==
    /\ UNCHANGED <<sup, aux>>
    /\ clock < MaxClock
    /\ clock' = clock + 1
    /\ UNCHANGED <<agent, transcript, pending, raw, state, out, origin,
                   cancelRequested, endedBy, phase>>

\* reader.next_line() yields Ok(Some(line)); the line is parsed
ReadLine(line) ==
    /\ UNCHANGED <<sup, aux>>
    /\ phase = "reading"
    /\ pending = <<>>
    /\ Len(transcript) < MaxLines
    /\ transcript' = Append(transcript, line)
    /\ pending' = parse_line(agent, line)
    /\ UNCHANGED <<agent, clock, raw, state, out, origin, cancelRequested,
                   endedBy, phase>>

\* mutant: a parse error is logged and dropped instead of sent in-band
SendNext_skips_errors ==
    /\ UNCHANGED <<sup, aux>>
    /\ phase = "reading"
    /\ pending # <<>>
    /\ LET result == Head(pending)
       IN  IF result.ok THEN Deliver(Ok(stamp(result.ev)))
                        ELSE UNCHANGED <<raw, state, out, origin>>
    /\ pending' = Tail(pending)
    /\ UNCHANGED <<agent, transcript, clock, cancelRequested, endedBy, phase>>

\* for result in events: stamp and tx.send
SendNext ==
    /\ UNCHANGED <<sup, aux>>
    /\ phase = "reading"
    /\ pending # <<>>
    /\ LET result == Head(pending)
           stamped == IF result.ok THEN Ok(stamp(result.ev)) ELSE result
       IN  Deliver(stamped)
    /\ pending' = Tail(pending)
    /\ UNCHANGED <<agent, transcript, clock, cancelRequested, endedBy, phase>>

\* somebody cancels the token
Cancel ==
    /\ UNCHANGED <<sup, aux>>
    /\ phase # "closed"
    /\ ~cancelRequested
    /\ cancelRequested' = TRUE
    /\ UNCHANGED <<agent, transcript, pending, clock, raw, state, out, origin,
                   endedBy, phase>>

\* select! takes the cancelled() branch: kill, break, return
CancelBranch ==
    /\ UNCHANGED <<sup, aux>>
    /\ phase = "reading"
    /\ pending = <<>>
    /\ cancelRequested
    /\ phase' = "closed"
    /\ endedBy' = "cancel"
    /\ UNCHANGED <<agent, transcript, pending, clock, raw, state, out, origin,
                   cancelRequested>>

\* reader.next_line() yields Ok(None): stdout EOF, break
Eof ==
    /\ UNCHANGED <<sup, aux>>
    /\ phase = "reading"
    /\ pending = <<>>
    /\ phase' = "after_loop"
    /\ endedBy' = "eof"
    /\ UNCHANGED <<agent, transcript, pending, clock, raw, state, out, origin,
                   cancelRequested>>

\* reader.next_line() yields Err(e): send Err(Io(e)), break
ReadError ==
    /\ UNCHANGED <<sup, aux>>
    /\ phase = "reading"
    /\ pending = <<>>
    /\ Deliver(Err("Io"))
    /\ phase' = "after_loop"
    /\ endedBy' = "io"
    /\ UNCHANGED <<agent, transcript, pending, clock, cancelRequested>>

\* if token_for_task.is_cancelled() { return }
CheckCancelled ==
    /\ UNCHANGED <<sup, aux>>
    /\ phase = "after_loop"
    /\ phase' = IF cancelRequested THEN "closed" ELSE "waiting"
    /\ UNCHANGED <<agent, transcript, pending, clock, raw, state, out, origin,
                   cancelRequested, endedBy>>

\* wait_handle.await yields the exit status: ProcessFailed when non-zero
ExitStatus(code) ==
    /\ UNCHANGED <<sup, aux>>
    /\ phase = "waiting"
    /\ phase' = "closed"
    /\ IF code # 0
       THEN Deliver(Err("ProcessFailed"))
       ELSE UNCHANGED <<raw, state, out, origin>>
    /\ UNCHANGED <<agent, transcript, pending, clock, cancelRequested, endedBy>>

ExitCodes == {0, 1}

Next ==
    \/ Tick
    \/ \E line \in Lines(agent) : ReadLine(line)
    \/ SendNext
    \/ Cancel
    \/ CancelBranch
    \/ Eof
    \/ ReadError
    \/ CheckCancelled
    \/ \E code \in ExitCodes : ExitStatus(code)

Spec == Init /\ [][Next]_vars

---------------------------------------------------------------------------
(* process.rs: spawn_and_stream as a concurrent system.  The child writes  *)
(* stdout lines into a pipe, the reader task takes them in its select!     *)
(* loop, parses them and sends the results into the bounded channel, the   *)
(* consumer receives from the channel or drops the stream, anybody may     *)
(* cancel the token, and the ChildGuard owned by the reader task signals   *)
(* the child's process group.  The adapter is Claude's; the normalizer is  *)
(* not in this picture: got is what StreamHandle.stream yields.            *)
(* The process group is the child alone: once the child has exited killpg  *)
(* finds no process.  Of stderr only the end of the collector task is     *)
(* kept: it returns when every writer has closed the pipe (EOF) or when it *)
(* leaves its loop early, and a process the child has started may hold    *)
(* the write end open after the child itself has exited.  The reader task  *)
(* looks at the collector only after the child's exit status, so a         *)
(* collector that returns earlier is one that has returned at the exit.    *)

\* a stdout line as BufReader::lines and line.trim() see it
StdoutLine(l) == [utf8 |-> TRUE, blank |-> FALSE, json |-> l]
BlankLine == [utf8 |-> TRUE, blank |-> TRUE, json |-> Garbage]
InvalidUtf8 == [utf8 |-> FALSE, blank |-> FALSE, json |-> Garbage]

SupLines ==
    {BlankLine, InvalidUtf8, StdoutLine(Garbage), StdoutLine(ClAssistant),
     StdoutLine(ClResult)}

\* Error::ProcessFailed { code, stderr }
ProcessFailed(code) == [ok |-> FALSE, err |-> "ProcessFailed", code |-> code]

\* an item in the channel, with the number of the stdout line it was
\* parsed from (0 for the errors the reader task makes up itself)
Sent(item, line) == [item |-> item, line |-> line]

\* the data path's variables in the supervisor specification: held fixed
DataIdle ==
    /\ agent = "claude" /\ transcript = <<>> /\ pending = <<>> /\ clock = 1
    /\ raw = <<>> /\ state = NormalizeState(None, None, None) /\ out = <<>>
    /\ origin = <<>> /\ cancelRequested = FALSE /\ endedBy = "none"
    /\ phase = "reading"

SupInit == DataIdle /\ SupIdle /\ AuxIdle

\* mutant: the guard signals on every call, without the killed flag
kill_unguarded ==
    /\ killed' = TRUE
    /\ IF child = "running"
       THEN term_sent' = term_sent + 1 /\ timer' = "armed"
       ELSE UNCHANGED <<term_sent, timer>>

\* ChildGuard::kill (unix): once only; SIGTERM to the process group and,
\* if that was delivered, a thread that sends SIGKILL 2 s later
kill ==
    IF killed THEN UNCHANGED <<killed, term_sent, timer>>
    ELSE /\ killed' = TRUE
         /\ IF child = "running"
            THEN term_sent' = term_sent + 1 /\ timer' = "armed"
            ELSE UNCHANGED <<term_sent, timer>>

\* the child's own write end of stderr goes with the child; another holder
\* of the pipe may remain and keep the collector reading
StderrAtExit == {"open", "closed"}

\* the thread of ChildGuard::kill wakes up after 2 s: SIGKILL
KillTimer ==
    /\ timer = "armed"
    /\ timer' = "fired"
    /\ IF child = "running"
       THEN /\ kill_sent' = kill_sent + 1
            /\ child' = "exited" /\ status_code' = -1 /\ stdout' = "closed"
            /\ stderr' \in StderrAtExit
       ELSE UNCHANGED <<kill_sent, child, status_code, stdout, stderr>>
    /\ UNCHANGED <<data, aux, pipe, taken, todo, pc, chan, sent, rx, got, token,
                   cancels, lines_at_cancel, killed, term_sent>>

\* the child prints a line
ChildWrites(line) ==
    /\ child = "running" /\ stdout = "open"
    /\ Len(taken) + Len(pipe) < MaxLines
    /\ pipe' = Append(pipe, line)
    /\ UNCHANGED <<data, aux, stderr, child, status_code, stdout, taken, todo, pc, chan, sent,
                   rx, got, token, cancels, lines_at_cancel, killed, term_sent,
                   kill_sent, timer>>

\* the child closes its stdout and keeps running
ChildClosesStdout ==
    /\ child = "running" /\ stdout = "open"
    /\ stdout' = "closed"
    /\ UNCHANGED <<data, aux, stderr, child, status_code, pipe, taken, todo, pc, chan, sent,
                   rx, got, token, cancels, lines_at_cancel, killed, term_sent,
                   kill_sent, timer>>

\* the child exits, by itself or on SIGTERM
ChildExits(code) ==
    /\ child = "running"
    /\ child' = "exited" /\ status_code' = code /\ stdout' = "closed"
    /\ stderr' \in StderrAtExit
    /\ UNCHANGED <<data, aux, pipe, taken, todo, pc, chan, sent, rx, got, token,
                   cancels, lines_at_cancel, killed, term_sent, kill_sent, timer>>

\* the last holder of the stderr pipe closes it after the child's exit:
\* the collector reads EOF and returns its buffer
StderrCloses ==
    /\ child = "exited" /\ stderr = "open"
    /\ stderr' = "closed"
    /\ UNCHANGED <<data, aux, child, status_code, stdout, pipe, taken, todo, pc, chan,
                   sent, rx, got, token, cancels, lines_at_cancel, killed,
                   term_sent, kill_sent, timer>>

\* CancellationToken::cancel()
CancelToken ==
    /\ cancels < MaxCancels
    /\ cancels' = cancels + 1
    /\ token' = TRUE
    /\ lines_at_cancel' = IF token THEN lines_at_cancel ELSE Len(taken)
    /\ UNCHANGED <<data, aux, stderr, child, status_code, stdout, pipe, taken, todo, pc, chan,
                   sent, rx, got, killed, term_sent, kill_sent, timer>>

\* the consumer polls the stream and gets the next item
Recv ==
    /\ rx = "open" /\ chan # <<>>
    /\ got' = Append(got, Head(chan))
    /\ chan' = Tail(chan)
    /\ UNCHANGED <<data, aux, stderr, child, status_code, stdout, pipe, taken, todo, pc, sent,
                   rx, token, cancels, lines_at_cancel, killed, term_sent,
                   kill_sent, timer>>

\* the consumer drops the stream: the receiver and what it holds are gone
DropStream ==
    /\ rx = "open"
    /\ rx' = "dropped"
    /\ chan' = <<>>
    /\ UNCHANGED <<data, aux, stderr, child, status_code, stdout, pipe, taken, todo, pc, sent,
                   got, token, cancels, lines_at_cancel, killed, term_sent,
                   kill_sent, timer>>

\* select!: the cancelled() branch: kill the subprocess and break
SelectCancelled ==
    /\ pc = "select" /\ token
    /\ kill
    /\ pc' = "after_loop"
    /\ UNCHANGED <<data, aux, stderr, child, status_code, stdout, pipe, taken, todo, chan, sent,
                   rx, got, token, cancels, lines_at_cancel, kill_sent>>

\* select!: reader.next_line() yields a line: Err(e) when it is not UTF-8,
\* skipped when blank, parsed otherwise
SelectLine ==
    /\ pc = "select" /\ pipe # <<>>
    /\ LET line == Head(pipe)
           events == IF line.utf8 /\ ~line.blank THEN parse_line(agent, line.json)
                     ELSE <<>>
       IN  /\ pipe' = Tail(pipe)
           /\ taken' = Append(taken, line)
           /\ todo' = events
           /\ pc' = IF ~line.utf8 THEN "send_io"
                    ELSE IF events = <<>> THEN "select" ELSE "send"
    /\ UNCHANGED <<data, aux, stderr, child, status_code, stdout, chan, sent, rx, got, token,
                   cancels, lines_at_cancel, killed, term_sent, kill_sent, timer>>

\* select!: reader.next_line() yields Ok(None): break
SelectEof ==
    /\ pc = "select" /\ pipe = <<>> /\ stdout = "closed"
    /\ pc' = "after_loop"
    /\ UNCHANGED <<data, aux, stderr, child, status_code, stdout, pipe, taken, todo, chan, sent,
                   rx, got, token, cancels, lines_at_cancel, killed, term_sent,
                   kill_sent, timer>>

\* mutant: a full channel drops the item instead of making the sender wait
SendEvent_lossy ==
    /\ pc = "send" /\ rx = "open"
    /\ LET result == Head(todo)
           stamped == IF result.ok THEN Ok(stamp(result.ev)) ELSE result
           it == Sent(stamped, Len(taken))
       IN  IF Len(chan) < ChannelDepth
           THEN chan' = Append(chan, it) /\ sent' = Append(sent, it)
           ELSE UNCHANGED <<chan, sent>>
    /\ todo' = Tail(todo)
    /\ pc' = IF Tail(todo) = <<>> THEN "select" ELSE "send"
    /\ UNCHANGED <<data, aux, stderr, child, status_code, stdout, pipe, taken, rx, got, token,
                   cancels, lines_at_cancel, killed, term_sent, kill_sent, timer>>

\* for result in events: tx.send(result.map(stamp)).await succeeds, once
\* the channel has room
SendEvent ==
    /\ pc = "send" /\ rx = "open" /\ Len(chan) < ChannelDepth
    /\ LET result == Head(todo)
           stamped == IF result.ok THEN Ok(stamp(result.ev)) ELSE result
           it == Sent(stamped, Len(taken))
       IN  chan' = Append(chan, it) /\ sent' = Append(sent, it)
    /\ todo' = Tail(todo)
    /\ pc' = IF Tail(todo) = <<>> THEN "select" ELSE "send"
    /\ UNCHANGED <<data, aux, stderr, child, status_code, stdout, pipe, taken, rx, got, token,
                   cancels, lines_at_cancel, killed, term_sent, kill_sent, timer>>

\* tx.send(..).await.is_err(): receiver dropped, return; the guard is dropped
SendFails ==
    /\ pc = "send" /\ rx = "dropped"
    /\ todo' = <<>>
    /\ pc' = "done"
    /\ kill
    /\ UNCHANGED <<data, aux, stderr, child, status_code, stdout, pipe, taken, chan, sent, rx,
                   got, token, cancels, lines_at_cancel, kill_sent>>

\* Err(e) => { let _ = tx.send(Err(Error::Io(e))).await; break }
SendIoError ==
    /\ pc = "send_io"
    /\ rx = "dropped" \/ Len(chan) < ChannelDepth
    /\ IF rx = "open"
       THEN LET it == Sent(Err("Io"), 0) IN
            chan' = Append(chan, it) /\ sent' = Append(sent, it)
       ELSE UNCHANGED <<chan, sent>>
    /\ pc' = "after_loop"
    /\ UNCHANGED <<data, aux, stderr, child, status_code, stdout, pipe, taken, todo, rx, got,
                   token, cancels, lines_at_cancel, killed, term_sent, kill_sent,
                   timer>>

\* The check after the loop, returning without dropping the guard.
IsCancelled_keeps_guard ==
    /\ pc = "after_loop"
    /\ IF token THEN pc' = "done" ELSE pc' = "wait"
    /\ UNCHANGED <<killed, term_sent, timer>>
    /\ UNCHANGED <<data, aux, stderr, child, status_code, stdout, pipe, taken, todo, chan, sent,
                   rx, got, token, cancels, lines_at_cancel, kill_sent>>

\* if token_for_task.is_cancelled() { return }
IsCancelled ==
    /\ pc = "after_loop"
    /\ IF token THEN pc' = "done" /\ kill
                ELSE pc' = "wait" /\ UNCHANGED <<killed, term_sent, timer>>
    /\ UNCHANGED <<data, aux, stderr, child, status_code, stdout, pipe, taken, todo, chan, sent,
                   rx, got, token, cancels, lines_at_cancel, kill_sent>>

\* mutant: the exit status is not looked at
WaitExit_ignores_status ==
    /\ pc = "wait" /\ child = "exited"
    /\ pc' = "done" /\ kill
    /\ UNCHANGED <<data, aux, stderr, child, status_code, stdout, pipe, taken, todo, chan, sent,
                   rx, got, token, cancels, lines_at_cancel, kill_sent>>

\* wait_handle.await yields the exit status of the child
WaitExit ==
    /\ pc = "wait" /\ child = "exited"
    /\ IF status_code # 0
       THEN pc' = "send_failed" /\ UNCHANGED <<killed, term_sent, timer>>
       ELSE pc' = "done" /\ kill
    /\ UNCHANGED <<data, aux, stderr, child, status_code, stdout, pipe, taken, todo, chan, sent,
                   rx, got, token, cancels, lines_at_cancel, kill_sent>>

\* stderr_handle.await, then
\* let _ = tx.send(Err(Error::ProcessFailed { code, stderr })).await
SendProcessFailed ==
    /\ pc = "send_failed"
    /\ stderr = "closed"
    /\ rx = "dropped" \/ Len(chan) < ChannelDepth
    /\ IF rx = "open"
       THEN LET it == Sent(ProcessFailed(status_code), 0) IN
            chan' = Append(chan, it) /\ sent' = Append(sent, it)
       ELSE UNCHANGED <<chan, sent>>
    /\ pc' = "done"
    /\ kill
    /\ UNCHANGED <<data, aux, stderr, child, status_code, stdout, pipe, taken, todo, rx, got,
                   token, cancels, lines_at_cancel, kill_sent>>

SupExitCodes == {0, 1}

SupNext ==
    \/ \E line \in SupLines : ChildWrites(line)
    \/ ChildClosesStdout
    \/ \E code \in SupExitCodes : ChildExits(code)
    \/ StderrCloses
    \/ CancelToken
    \/ Recv
    \/ DropStream
    \/ SelectCancelled
    \/ SelectLine
    \/ SelectEof
    \/ SendEvent
    \/ SendFails
    \/ SendIoError
    \/ IsCancelled
    \/ WaitExit
    \/ SendProcessFailed
    \/ KillTimer

SupSpec == SupInit /\ [][SupNext]_vars

---------------------------------------------------------------------------
(* The transcripts a backend writes when it follows the stream format its  *)
(* adapter documents: the init line first and once, a tool result after    *)
(* its tool call, nothing after the terminal line.  Every prefix of such a *)
(* transcript is accepted, so that the predicate can be used at any point  *)
(* of a run.                                                               *)

Front(t) == SubSeq(t, 1, Len(t) - 1)
Last(t) == t[Len(t)]

IsType(line, ty) == line.json /\ line.type = Some(ty)

\* init line first and only first, terminal lines last, results after calls
Framed(t, init, terminal, call, result) ==
    \A i \in 1..Len(t) :
       /\ t[i].json
       /\ IsType(t[i], init) <=> i = 1
       /\ (\E ty \in terminal : IsType(t[i], ty)) => i = Len(t)
       /\ t[i] = result => \E j \in 1..(i - 1) : t[j] = call

\* OpenCode: steps of step_start, text | tool_use ..., step_finish; the run
\* is over at the step_finish whose reason is "stop"; progress text anywhere
RECURSIVE opencode_phase(_)
opencode_phase(t) ==
    IF t = <<>> THEN "idle"
    ELSE LET p == opencode_phase(Front(t))
             l == Last(t)
         IN  CASE p = "bad" -> "bad"
               [] ~l.json -> p
               [] IsType(l, "step_start") -> IF p = "idle" THEN "step" ELSE "bad"
               [] IsType(l, "text") \/ IsType(l, "tool_use") ->
                    IF p = "step" THEN "step" ELSE "bad"
               [] IsType(l, "step_finish") ->
                    IF p # "step" THEN "bad"
                    ELSE IF l.reason = Some("stop") THEN "done" ELSE "idle"
               [] OTHER -> "bad"

WellFormed ==
    CASE agent = "claude" ->
           Framed(transcript, "system", {"result"}, ClAssistant, ClUser)
      [] agent = "codex" ->
           Framed(transcript, "thread.started", {"turn.completed", "turn.failed"},
                  CxCmdStarted, CxCmdCompleted)
      [] agent = "cursor" ->
           Framed(transcript, "system", {"result"}, CuToolStarted, CuToolCompleted)
      [] agent = "opencode" -> opencode_phase(transcript) # "bad"

---------------------------------------------------------------------------
(* Reading the two streams *)

\* out[i] is an event of type ty
IsEv(i, ty) == out[i].ok /\ out[i].ev.type = ty

\* raw[i] is an event of type ty
IsRaw(i, ty) == raw[i].ok /\ raw[i].ev.type = ty

OutIdx(ty) == {i \in 1..Len(out) : IsEv(i, ty)}

IsUserMsg(item) == item.ok /\ item.ev.type = "message" /\ item.ev.role = "user"
IsAssistantMsg(item) == item.ok /\ item.ev.type = "message" /\ item.ev.role = "assistant"

\* the user messages of out the normalizer made up
SyntheticUser == {i \in 1..Len(out) : IsUserMsg(out[i]) /\ origin[i] = 0}

---------------------------------------------------------------------------
(* C1: in every run on a well-formed backend transcript, the output has at *)
(* most one SessionStart and at most one Result, and when both appear the  *)
(* SessionStart comes before the Result.                                   *)
C1_OneSessionStartOneResult ==
    WellFormed =>
       /\ Cardinality(OutIdx("session_start")) <= 1
       /\ Cardinality(OutIdx("result")) <= 1
       /\ \A i \in OutIdx("session_start"), j \in OutIdx("result") : i < j

(* C2: every ToolEnd of the output has an earlier ToolStart of the output  *)
(* with the same call_id.                                                  *)
C2_ToolEndHasToolStart ==
    \A j \in OutIdx("tool_end") :
       \E i \in OutIdx("tool_start") :
          i < j /\ out[i].ev.call_id = out[j].ev.call_id

---------------------------------------------------------------------------
(* C3 *)

PromptGiven == is_some(state.prompt)
AdapterSentUser == \E i \in 1..Len(raw) : IsUserMsg(raw[i])
UserIdx == {i \in 1..Len(out) : IsUserMsg(out[i])}

\* exactly one user message, with the prompt as text, ahead of every
\* assistant Message, UsageDelta and Result
OnePromptMessageFirst ==
    /\ Cardinality(UserIdx) = 1
    /\ \A u \in UserIdx :
          /\ out[u].ev.text = unwrap(state.prompt)
          /\ \A j \in 1..Len(out) :
                (IsAssistantMsg(out[j]) \/ IsEv(j, "usage_delta") \/ IsEv(j, "result"))
                   => u < j

(* C3, as claimed: when the stream has ended, a prompt P was given and the *)
(* adapter emitted events but no user message, the output holds exactly    *)
(* one user Message with text P, ahead of the first assistant Message, the *)
(* first UsageDelta and the Result.                                        *)
C3_Original ==
    (phase = "closed" /\ PromptGiven /\ ~AdapterSentUser
        /\ \E i \in 1..Len(raw) : raw[i].ok)
       => OnePromptMessageFirst

\* the adapter has emitted an event that is not a SessionStart
AdapterSentBeyondStart ==
    \E i \in 1..Len(raw) : raw[i].ok /\ raw[i].ev.type # "session_start"

(* C3, amended: the same once the adapter has emitted any event other than *)
(* a SessionStart; until then the output holds no user message at all.     *)
C3_PromptMessageOnceAfterStart ==
    (PromptGiven /\ ~AdapterSentUser) =>
       IF AdapterSentBeyondStart THEN OnePromptMessageFirst ELSE UserIdx = {}

C3_Witness ==
    /\ PromptGiven /\ ~AdapterSentUser
    /\ OutIdx("result") # {}
    /\ \E j \in 1..Len(out) : IsAssistantMsg(out[j])
    /\ SyntheticUser # {}

---------------------------------------------------------------------------
(* C4 *)

(* C4, as claimed: if the adapter's events contain a user Message, no      *)
(* synthetic user Message is in the output.                                *)
C4_Original == AdapterSentUser => SyntheticUser = {}

\* the adapter's user Message came before any of its events other than
\* SessionStart (error items do not count)
AdapterUserFirst ==
    \E i \in 1..Len(raw) :
       /\ IsUserMsg(raw[i])
       /\ \A j \in 1..(i - 1) : raw[j].ok => raw[j].ev.type = "session_start"

(* C4, amended: if the adapter emits a user Message before any event other *)
(* than SessionStart, no synthetic user Message is injected and the user   *)
(* messages of the output are the adapter's own.                           *)
C4_NoSyntheticAfterAdapterUser ==
    AdapterUserFirst =>
       /\ SyntheticUser = {}
       /\ \A u \in UserIdx : origin[u] > 0 /\ out[u] = raw[origin[u]]

C4_Witness ==
    /\ PromptGiven /\ AdapterUserFirst
    /\ \E j \in 1..Len(out) : IsAssistantMsg(out[j])
    /\ OutIdx("result") # {}

---------------------------------------------------------------------------
(* C5 *)

\* the lines that end a backend's run
IsTerminalLine(line) ==
    CASE agent = "claude" -> IsType(line, "result")
      [] agent = "codex" -> IsType(line, "turn.completed") \/ IsType(line, "thread.completed")
      [] agent = "cursor" -> IsType(line, "result")
      [] agent = "opencode" -> IsType(line, "step_finish") /\ line.reason = Some("stop")

TerminalLines == {i \in 1..Len(transcript) : IsTerminalLine(transcript[i])}

\* the stream is over, ended neither by cancellation nor by an I/O error
EndedNaturally == phase = "closed" /\ ~cancelRequested /\ endedBy = "eof"

---------------------------------------------------------------------------
(* C6 *)

OutEvents == SelectSeq(out, LAMBDA x : x.ok)
RawEvents == SelectSeq(raw, LAMBDA x : x.ok)

(* C6, as claimed: an output stream with at least one event starts with a  *)
(* SessionStart.                                                           *)
C6_Original == OutEvents # <<>> => OutEvents[1].ev.type = "session_start"

(* C6, amended: when the first event the adapter emits is a SessionStart,  *)
(* the first event of the output is that SessionStart.                     *)
C6_SessionStartStaysFirst ==
    (RawEvents # <<>> /\ RawEvents[1].ev.type = "session_start") =>
       /\ OutEvents # <<>>
       /\ OutEvents[1].ev.type = "session_start"
       /\ OutEvents[1].ev.session_id = RawEvents[1].ev.session_id
       /\ OutEvents[1].ev.timestamp_ms = RawEvents[1].ev.timestamp_ms

C6_Witness ==
    /\ Len(OutEvents) >= 3
    /\ OutEvents[1].ev.type = "session_start"
    /\ IsUserMsg(OutEvents[2])
    /\ SyntheticUser # {}

---------------------------------------------------------------------------
(* C7 *)

UsageFields == {"input_tokens", "output_tokens", "cache_read_tokens",
                "cache_creation_tokens", "cost_usd"}

\* the sum of component f over the UsageDelta events among raw[1..n];
\* None when none of them carries the component
RECURSIVE SumOfDeltas(_, _)
SumOfDeltas(n, f) ==
    IF n = 0 THEN None
    ELSE LET prev == SumOfDeltas(n - 1, f) IN
         IF IsRaw(n, "usage_delta") /\ is_some(raw[n].ev.usage[f])
         THEN Some(unwrap_or(prev, 0) + unwrap(raw[n].ev.usage[f]))
         ELSE prev

DeltasBefore(r) == {i \in 1..(r - 1) : IsRaw(i, "usage_delta")}

UsageIsSum(k) ==
    /\ is_some(out[k].ev.usage)
    /\ \A f \in UsageFields :
          unwrap(out[k].ev.usage)[f] = SumOfDeltas(origin[k] - 1, f)

(* C7, as claimed: a Result that comes after at least one observed         *)
(* UsageDelta is delivered with usage present and each component equal to  *)
(* the sum of that component over the observed deltas.                     *)
C7_Original ==
    \A k \in OutIdx("result") : DeltasBefore(origin[k]) # {} => UsageIsSum(k)

(* C7, amended: the same for a Result whose usage the adapter left unset.  *)
C7_UnsetUsageIsSumOfDeltas ==
    \A k \in OutIdx("result") :
       (DeltasBefore(origin[k]) # {} /\ is_none(raw[origin[k]].ev.usage))
          => UsageIsSum(k)

C7_Witness ==
    \E k \in OutIdx("result") :
       /\ Cardinality(DeltasBefore(origin[k])) >= 2
       /\ is_none(raw[origin[k]].ev.usage)
       /\ UsageIsSum(k)
       /\ unwrap(out[k].ev.usage).input_tokens = Some(2)

---------------------------------------------------------------------------
(* C8 *)

\* the UsageDelta events ahead of out[k], the one the normalizer made up
\* for out[k] itself left aside
DeltasAhead(k) ==
    {j \in 1..(k - 1) : IsEv(j, "usage_delta") /\ ~(j = k - 1 /\ origin[j] = 0)}

SyntheticDeltaRightBefore(k) ==
    /\ k > 1
    /\ IsEv(k - 1, "usage_delta")
    /\ origin[k - 1] = 0
    /\ out[k - 1].ev.usage = unwrap(out[k].ev.usage)
    /\ out[k - 1].ev.timestamp_ms = out[k].ev.timestamp_ms

(* C8: a Result of the output that carries usage has a UsageDelta ahead of *)
(* it in the output; when none was emitted earlier, a synthetic one with   *)
(* the Result's usage and timestamp sits immediately before the Result.    *)
C8_UsageDeltaBeforeResult ==
    \A k \in OutIdx("result") :
       is_some(out[k].ev.usage) =>
          /\ \E j \in 1..(k - 1) : IsEv(j, "usage_delta")
          /\ DeltasAhead(k) = {} => SyntheticDeltaRightBefore(k)

C8_Witness ==
    \E k \in OutIdx("result") :
       /\ is_some(out[k].ev.usage)
       /\ DeltasAhead(k) = {}
       /\ SyntheticDeltaRightBefore(k)
       /\ k > 2 /\ IsUserMsg(out[k - 2])

---------------------------------------------------------------------------
(* C9 *)

\* the non-empty assistant messages the adapter emitted ahead of raw[r]
AssistantBefore(r) ==
    {i \in 1..(r - 1) : IsAssistantMsg(raw[i]) /\ raw[i].ev.text # ""}

Max(S) == CHOOSE x \in S : \A y \in S : y <= x

(* C9: a Result that comes after an assistant Message with non-empty text  *)
(* is delivered with non-empty text: its own if it had one, else the text  *)
(* of the most recent such message.                                        *)
C9_ResultTextFilled ==
    \A k \in OutIdx("result") :
       LET r == origin[k] IN
       AssistantBefore(r) # {} =>
          /\ out[k].ev.text # ""
          /\ out[k].ev.text = IF raw[r].ev.text # "" THEN raw[r].ev.text
                              ELSE raw[Max(AssistantBefore(r))].ev.text

C9_Witness ==
    \E k \in OutIdx("result") :
       /\ Cardinality(AssistantBefore(origin[k])) = 2
       /\ raw[origin[k]].ev.text = ""
       /\ out[k].ev.text = "b"

---------------------------------------------------------------------------
(* C10: every event delivered to the consumer, the normalizer's synthetic  *)
(* events included, has timestamp_ms > 0.                                  *)
C10_TimestampsPositive ==
    \A i \in 1..Len(out) : out[i].ok => out[i].ev.timestamp_ms > 0

---------------------------------------------------------------------------
(* C11: in the output, timestamp_ms never decreases from one event to the  *)
(* next, the synthetic user message and UsageDelta included.               *)
C11_TimestampsNonDecreasing ==
    \A i, j \in 1..Len(out) :
       (i < j /\ out[i].ok /\ out[j].ok)
          => out[i].ev.timestamp_ms <= out[j].ev.timestamp_ms

---------------------------------------------------------------------------
(* C12 *)

\* normalize_stream over a whole stream: the scan from state st, flattened
RECURSIVE normalize_stream(_, _)
normalize_stream(items, st) ==
    IF items = <<>> THEN <<>>
    ELSE LET r == normalize_item(st, Head(items))
         IN  r.items \o normalize_stream(Tail(items), r.state)

\* the output fed through a fresh normalizer of the same configuration
Renormalized == normalize_stream(out, NormalizeState(state.cwd, state.model, state.prompt))

(* C12: the output fed through a fresh normalizer with the same fallback   *)
(* cwd, model and prompt comes out as the same sequence, field for field.  *)
C12_Idempotent == Renormalized = out

---------------------------------------------------------------------------
(* Scheduling of the supervisor: the reader task is a tokio task that runs *)
(* whenever it can make a step, select! picks at random among the branches *)
(* that are ready (so a branch that is ready again and again is taken),    *)
(* the 2 s thread wakes up, and the consumer keeps polling until it drops  *)
(* the stream.  The child is under no obligation.                          *)
FairSupSpec ==
    /\ SupSpec
    /\ SF_vars(SelectCancelled)
    /\ WF_vars(SelectLine) /\ WF_vars(SelectEof)
    /\ WF_vars(SendEvent) /\ WF_vars(SendFails) /\ WF_vars(SendIoError)
    /\ WF_vars(IsCancelled) /\ WF_vars(WaitExit) /\ WF_vars(SendProcessFailed)
    /\ WF_vars(KillTimer)
    /\ WF_vars(Recv)

---------------------------------------------------------------------------
(* C13: whenever the token is cancelled while the child is running, the    *)
(* child's process group is eventually sent SIGTERM (unless the child has  *)
(* exited by itself before), wherever the reader task is at that moment.   *)
C13_CancelSignalsChild ==
    (token /\ child = "running") ~> (term_sent >= 1 \/ child = "exited")

---------------------------------------------------------------------------
(* C14: once the consumer has dropped the stream, the child's process      *)
(* group is eventually sent SIGTERM (unless the child exits by itself or   *)
(* the token gets cancelled meanwhile), even if the child stays silent.    *)
C14_DropSignalsChild ==
    (rx = "dropped" /\ child = "running")
       ~> (term_sent >= 1 \/ child = "exited" \/ token)

---------------------------------------------------------------------------
(* C15: every item sent into the channel was parsed from a stdout line the *)
(* reader had taken by the time the token was cancelled.                   *)
C15_NoLaterLineAfterCancel ==
    lines_at_cancel >= 0 =>
       \A i \in 1..Len(sent) : sent[i].line <= lines_at_cancel

---------------------------------------------------------------------------
(* C16 *)

\* the consumer's next poll yields None: all senders gone, channel empty
StreamEnded == pc = "done" /\ chan = <<>>

(* C16: once the token is cancelled with at least one event delivered, the *)
(* stream ends for a consumer that keeps reading, however long the child   *)
(* keeps running.                                                          *)
C16_CancelEndsStream ==
    (token /\ Len(got) >= 1) ~> (StreamEnded \/ rx = "dropped")

---------------------------------------------------------------------------
(* C17: whatever the number and order of cancel calls, stream drop and     *)
(* reader termination, at most one SIGTERM and at most one SIGKILL are     *)
(* sent to the child's process group.                                      *)
C17_SignalsAtMostOnce == term_sent <= 1 /\ kill_sent <= 1

C17_Witness ==
    /\ cancels = 2 /\ rx = "dropped" /\ pc = "done"
    /\ term_sent = 1 /\ kill_sent = 1

---------------------------------------------------------------------------
(* What the supervisor's stream should hold *)

\* an item as the adapter returned it, before Event::stamp
Unstamped(item) ==
    IF item.ok THEN Ok([item.ev EXCEPT !.timestamp_ms = 0]) ELSE item

\* the parse results of the first k lines taken, each with its line number
RECURSIVE ParsedUpTo(_)
ParsedUpTo(k) ==
    IF k = 0 THEN <<>>
    ELSE LET line == taken[k]
             events == IF line.utf8 /\ ~line.blank THEN parse_line(agent, line.json)
                       ELSE <<>>
         IN  ParsedUpTo(k - 1) \o [i \in 1..Len(events) |-> Sent(events[i], k)]

\* what the consumer has got or will get
Stream == got \o chan

FromStdout(it) == it.line >= 1

AllUtf8 == \A i \in 1..Len(taken) : taken[i].utf8

---------------------------------------------------------------------------
(* C18: when the reader task has finished after stdout EOF with the token  *)
(* not cancelled, a non-zero exit code leaves exactly one ProcessFailed    *)
(* item with that code in the stream, as its last item, after all the      *)
(* items parsed from stdout; exit code zero leaves no error item of the    *)
(* supervisor in the stream.                                               *)
C18_ProcessFailedLast ==
    (pc = "done" /\ ~token /\ rx = "open" /\ AllUtf8) =>
       LET n == Len(Stream) IN
       IF status_code # 0
       THEN /\ n >= 1
            /\ Stream[n] = Sent(ProcessFailed(status_code), 0)
            /\ \A i \in 1..(n - 1) : FromStdout(Stream[i])
            /\ n - 1 = Len(ParsedUpTo(Len(taken)))
       ELSE /\ \A i \in 1..n : FromStdout(Stream[i])
            /\ n = Len(ParsedUpTo(Len(taken)))

C18_Witness ==
    /\ pc = "done" /\ ~token /\ rx = "open" /\ AllUtf8
    /\ status_code = 1
    /\ chan = <<>> /\ Len(got) >= 3
    /\ got[Len(got)] = Sent(ProcessFailed(1), 0)

---------------------------------------------------------------------------
(* C19: with the token not cancelled and the stream not dropped, the items *)
(* parsed from stdout that the consumer has got or will get, followed by   *)
(* those of the current line still to be sent, are the concatenation in    *)
(* line order of the adapter's results for every non-blank line taken;     *)
(* the supervisor's own error items come after them; and once the reader   *)
(* has left its loop at EOF every line the child wrote has been taken.     *)
C19_ConcatenationOfLines ==
    (~token /\ rx = "open") =>
       LET parsed == SelectSeq(Stream, FromStdout)
           rest == [i \in 1..Len(todo) |-> Sent(todo[i], Len(taken))]
       IN  /\ [i \in 1..Len(parsed) |->
                  Sent(Unstamped(parsed[i].item), parsed[i].line)] \o rest
                = ParsedUpTo(Len(taken))
           /\ \A i, j \in 1..Len(Stream) :
                 (i < j /\ ~FromStdout(Stream[i])) => ~FromStdout(Stream[j])
           /\ (pc \in {"after_loop", "wait", "send_failed", "done"} /\ AllUtf8)
                 => pipe = <<>>

C19_Witness ==
    /\ ~token /\ rx = "open"
    /\ pc = "send" /\ Len(chan) = ChannelDepth
    /\ Len(got) >= 1 /\ Len(taken) >= 2

---------------------------------------------------------------------------
(* C20 *)

JsonAdapters == {"claude", "codex", "cursor"}

\* the parse results of the first k lines of the transcript
RECURSIVE RawUpTo(_)
RawUpTo(k) ==
    IF k = 0 THEN <<>> ELSE RawUpTo(k - 1) \o parse_line(agent, transcript[k])

ParseErrors(s) == {i \in 1..Len(s) : ~s[i].ok /\ s[i].err = ParseError}

(* C20: for Claude, Codex and Cursor, while the reader is in its loop the  *)
(* items sent so far, followed by those of the current line still to be    *)
(* sent, are the parse results of all lines read, with exactly one         *)
(* ParseError item per line that is not JSON, each of them passed on to    *)
(* the consumer.                                                           *)
C20_ParseErrorInBand ==
    (agent \in JsonAdapters /\ phase = "reading") =>
       /\ [i \in 1..Len(raw) |-> Unstamped(raw[i])] \o pending
            = RawUpTo(Len(transcript))
       /\ Cardinality(ParseErrors(raw \o pending))
            = Cardinality({i \in 1..Len(transcript) : ~transcript[i].json})
       /\ Cardinality(ParseErrors(out)) = Cardinality(ParseErrors(raw))

C20_Witness ==
    /\ agent \in JsonAdapters /\ phase = "reading" /\ pending = <<>>
    /\ Len(transcript) = 3
    /\ ~transcript[1].json /\ transcript[2].json /\ transcript[3].json
    /\ ParseErrors(out) = {1}
    /\ \E i \in 2..Len(out) : out[i].ok /\ origin[i] > 0
                                /\ out[i].ev.type = "result"

(***************************************************************************)
(* Launching a task: run_task_with_cancel (lib.rs) and the part of         *)
(* spawn_and_stream (process.rs) that runs before the reader task is       *)
(* spawned.  args is the request, locals the position in the call and      *)
(* what it has created so far, ret the value the call returned.            *)
(***************************************************************************)
CwdKinds == {"missing", "file", "dir"}

LaunchArgs ==
    [agent : AgentKind, binary_path : {None, Some("/opt/agent")},
     on_path : BOOLEAN, cwd : CwdKinds, exec : {"ok", "fails"}]

find_binary(a) == IF a.on_path THEN Some("/usr/bin/agent") ELSE None

resolve_binary(a) ==
    IF is_some(a.binary_path) THEN Ok(unwrap(a.binary_path))
    ELSE IF is_some(find_binary(a)) THEN Ok(unwrap(find_binary(a)))
    ELSE Err("BinaryNotFound")

validate_cwd(cwd) ==
    IF cwd = "missing" THEN Err("InvalidWorkDir")
    ELSE IF cwd # "dir" THEN Err("Other")
    ELSE Ok("()")

Locals(at, child_started, stream) ==
    [pc |-> at, child_started |-> child_started, stream |-> stream]

Return(r) ==
    /\ ret' = Some(r)
    /\ locals' = [locals EXCEPT !.pc = "returned"]

LaunchInit ==
    /\ DataIdle /\ SupIdle
    /\ args \in LaunchArgs
    /\ locals = Locals("is_available", FALSE, None)
    /\ ret = None

\* lib.rs: binary_path.is_none() && !runner.is_available()
IsAvailable ==
    /\ locals.pc = "is_available"
    /\ IF is_none(args.binary_path) /\ is_none(find_binary(args))
       THEN Return(Err("BinaryNotFound"))
       ELSE locals' = [locals EXCEPT !.pc = "binary_path"] /\ UNCHANGED ret
    /\ UNCHANGED <<data, sup, args>>

\* process.rs: let binary = runner.binary_path(config)?;
BinaryPath ==
    /\ locals.pc = "binary_path"
    /\ LET r == resolve_binary(args) IN
       IF r.ok THEN locals' = [locals EXCEPT !.pc = "validate_cwd"]
                    /\ UNCHANGED ret
               ELSE Return(r)
    /\ UNCHANGED <<data, sup, args>>

\* process.rs: validate_cwd(&cwd)?;
ValidateCwd ==
    /\ locals.pc = "validate_cwd"
    /\ LET r == validate_cwd(args.cwd) IN
       IF r.ok THEN locals' = [locals EXCEPT !.pc = "spawn"] /\ UNCHANGED ret
               ELSE Return(r)
    /\ UNCHANGED <<data, sup, args>>

\* A launch that reports a failed exec as the first item of a stream.
SpawnChild_in_band ==
    /\ locals.pc = "spawn"
    /\ IF args.exec = "fails"
       THEN /\ locals' = [locals EXCEPT !.pc = "returned",
                                        !.stream = Some(<<Err("SpawnFailed")>>)]
            /\ ret' = Some(Ok("StreamHandle"))
       ELSE /\ locals' = [locals EXCEPT !.pc = "handle",
                                        !.child_started = TRUE]
            /\ UNCHANGED ret
    /\ UNCHANGED <<data, sup, args>>

\* process.rs: cmd.spawn().map_err(Error::SpawnFailed)?
SpawnChild ==
    /\ locals.pc = "spawn"
    /\ IF args.exec = "fails"
       THEN Return(Err("SpawnFailed"))
       ELSE /\ locals' = [locals EXCEPT !.pc = "handle",
                                        !.child_started = TRUE]
            /\ UNCHANGED ret
    /\ UNCHANGED <<data, sup, args>>

\* process.rs: the channel and the reader task are created, Ok(handle).
ReturnHandle ==
    /\ locals.pc = "handle"
    /\ locals' = [locals EXCEPT !.pc = "returned", !.stream = Some(<<>>)]
    /\ ret' = Some(Ok("StreamHandle"))
    /\ UNCHANGED <<data, sup, args>>

LaunchNext ==
    \/ IsAvailable
    \/ BinaryPath
    \/ ValidateCwd
    \/ SpawnChild
    \/ ReturnHandle

LaunchSpec == LaunchInit /\ [][LaunchNext]_vars

LaunchErrors == {"BinaryNotFound", "SpawnFailed", "InvalidWorkDir"}

Returned == locals.pc = "returned"

Failed(kind) == Returned /\ ~unwrap(ret).ok /\ unwrap(ret).err = kind

(* C21: BinaryNotFound, SpawnFailed and InvalidWorkDir are reported as the *)
(* failure of the launching call itself: when the call returns one of      *)
(* them no stream exists, a stream exists exactly when the call returned   *)
(* Ok, a failed exec leaves no child, and no item of a returned stream    *)
(* created by the launch is one of these three errors.                     *)
C21_LaunchErrorsFailTheCall ==
    /\ Returned =>
         /\ (is_none(args.binary_path) /\ ~args.on_path)
               => Failed("BinaryNotFound")
         /\ (args.exec = "fails" /\ unwrap(ret).ok) => FALSE
         /\ is_none(locals.stream) <=> ~unwrap(ret).ok
    /\ (\E kind \in LaunchErrors : Failed(kind)) => is_none(locals.stream)
    /\ locals.child_started => args.exec = "ok"
    /\ is_some(locals.stream) =>
         \A i \in 1..Len(unwrap(locals.stream)) :
            LET item == unwrap(locals.stream)[i]
            IN  item.ok \/ item.err \notin LaunchErrors

C21_Witness ==
    /\ Failed("SpawnFailed")
    /\ is_none(locals.stream)
    /\ ~locals.child_started
    /\ args.cwd = "dir"

(* C22: whenever cwd is missing or is not a directory the launching call   *)
(* fails with InvalidWorkDir and no child was started, whatever the rest   *)
(* of the request is (cwd is validated before the binary is resolved).     *)
C22_InvalidWorkDirFirst ==
    (Returned /\ args.cwd # "dir") =>
        Failed("InvalidWorkDir") /\ ~locals.child_started

(***************************************************************************)
(* The stderr collector task of spawn_and_stream and the place where its   *)
(* result is awaited.  Only the byte length of the buffer is kept.  args   *)
(* is the sequence of lines the child writes to stderr, locals the         *)
(* collector's position and buffer, ret the text put into ProcessFailed.   *)
(***************************************************************************)
MAX_STDERR_BYTES == 65536

MaxStderrLines == 3

StderrLengths ==
    {0, 1, MAX_STDERR_BYTES - 1, MAX_STDERR_BYTES, MAX_STDERR_BYTES + 1}

\* A line of stderr: its length in bytes, and whether it holds characters
\* of more than one byte (a slice of such a line can fall inside one).
StderrLine == [len : StderrLengths, multibyte : BOOLEAN]

RECURSIVE SeqsUpTo(_, _)
SeqsUpTo(S, n) ==
    IF n = 0 THEN {<<>>}
    ELSE LET shorter == SeqsUpTo(S, n - 1)
         IN  shorter \cup {Append(q, x) : q \in shorter, x \in S}

StderrInit ==
    /\ DataIdle /\ SupIdle
    /\ args \in SeqsUpTo(StderrLine, MaxStderrLines)
    /\ locals = [pc |-> "next_line", read |-> 0, buf_len |-> 0]
    /\ ret = None

\* Whether &line[..n] is a valid slice: 0 and len are always character
\* boundaries, an index inside a multibyte line may or may not be one.
SliceOutcomes(line, n) ==
    IF line.multibyte /\ 0 < n /\ n < line.len THEN {"ok", "panic"}
    ELSE {"ok"}

\* One iteration of the loop without the cap on the buffer.
NextLine_uncapped ==
    /\ locals.pc = "next_line"
    /\ locals.read < Len(args)
    /\ LET line == args[locals.read + 1]
           sep  == IF locals.buf_len # 0 THEN 1 ELSE 0
       IN  locals' = [locals EXCEPT !.read = @ + 1,
                                    !.buf_len = @ + sep + line.len]
    /\ UNCHANGED <<data, sup, args, ret>>

\* One iteration of `while let Ok(Some(line)) = lines.next_line().await`.
NextLine ==
    /\ locals.pc = "next_line"
    /\ locals.read < Len(args)
    /\ LET line == args[locals.read + 1] IN
       IF locals.buf_len >= MAX_STDERR_BYTES
       THEN locals' = [locals EXCEPT !.pc = "done", !.read = @ + 1]
       ELSE LET sep       == IF locals.buf_len # 0 THEN 1 ELSE 0
                pushed    == locals.buf_len + sep
                remaining == MAX_STDERR_BYTES - pushed
            IN  IF line.len > remaining
                THEN \E outcome \in SliceOutcomes(line, remaining) :
                        IF outcome = "panic"
                        THEN locals' = [locals EXCEPT !.pc = "panicked",
                                                      !.read = @ + 1,
                                                      !.buf_len = pushed]
                        ELSE locals' = [locals EXCEPT !.pc = "done",
                                                      !.read = @ + 1,
                                                      !.buf_len = pushed + remaining]
                ELSE locals' = [locals EXCEPT !.read = @ + 1,
                                              !.buf_len = pushed + line.len]
    /\ UNCHANGED <<data, sup, args, ret>>

\* next_line() returns Ok(None): the loop ends and the task returns buf.
StderrEof ==
    /\ locals.pc = "next_line"
    /\ locals.read = Len(args)
    /\ locals' = [locals EXCEPT !.pc = "done"]
    /\ UNCHANGED <<data, sup, args, ret>>

\* stderr_handle.await.unwrap_or_default(): the buffer, or the empty
\* string when the task panicked.
AwaitStderr ==
    /\ locals.pc \in {"done", "panicked"}
    /\ ret = None
    /\ ret' = Some(IF locals.pc = "done" THEN locals.buf_len ELSE 0)
    /\ UNCHANGED <<data, sup, args, locals>>

StderrNext ==
    \/ NextLine
    \/ StderrEof
    \/ AwaitStderr

StderrSpec == StderrInit /\ [][StderrNext]_vars

RECURSIVE TotalStderr(_)
TotalStderr(ls) ==
    IF ls = <<>> THEN 0 ELSE Head(ls).len + 1 + TotalStderr(Tail(ls))

(* C23: the stderr text carried by ProcessFailed is at most 65,536 bytes   *)
(* long, for every sequence of stderr lines; the collector's buffer never  *)
(* exceeds that length either.                                             *)
C23_StderrCapped ==
    /\ locals.buf_len <= MAX_STDERR_BYTES
    /\ is_some(ret) => unwrap(ret) <= 65536

C23_Witness ==
    /\ is_some(ret) /\ unwrap(ret) = 65536
    /\ Len(args) = 3 /\ locals.read = 2
    /\ TotalStderr(args) > 2 * MAX_STDERR_BYTES

---------------------------------------------------------------------------
(* C24 *)

\* tests/stream_integration.rs, create_mock_claude_binary: system/init, one
\* assistant text, a result line with duration_ms and total_cost_usd, run
\* to the end with exit status 0 and the prompt given.
ClaudeHappyPath ==
    /\ agent = "claude"
    /\ transcript = <<ClInit, ClText, ClResult>>
    /\ state.prompt = Some("P")
    /\ phase = "closed" /\ endedBy = "eof" /\ ~cancelRequested
    /\ \A i \in 1..Len(out) : out[i].ok

EventTypes == [i \in 1..Len(out) |-> IF out[i].ok THEN out[i].ev.type ELSE "Err"]

(* C24, as claimed: on the Claude happy path the consumer receives exactly *)
(* five events: SessionStart, the user Message with the prompt, the        *)
(* assistant Message, a UsageDelta carrying the usage of the Result, and   *)
(* the Result.                                                             *)
C24_Original ==
    ClaudeHappyPath =>
       /\ EventTypes = <<"session_start", "message", "message",
                         "usage_delta", "result">>
       /\ out[2].ev.role = "user" /\ out[2].ev.text = "P"
       /\ out[3].ev.role = "assistant"
       /\ Some(out[4].ev.usage) = out[5].ev.usage

(* C24, amended: on the Claude happy path the consumer receives exactly    *)
(* four events: SessionStart, the user Message with the prompt, the        *)
(* assistant Message and the Result.  The result line carries no usage     *)
(* object, so the Result has no usage and no UsageDelta is synthesized;    *)
(* duration_ms and total_cost_usd are those of the line.                   *)
C24_FourEvents ==
    ClaudeHappyPath =>
       [i \in 1..Len(out) |-> Unstamped(out[i])] =
          << Ok(SessionStart("s1", "claude", Some("m"), Some("/tmp"))),
             Ok(Message("user", "P")),
             Ok(Message("assistant", "a")),
             Ok(ResultEvent(TRUE, "r", "s1", Some(5), Some(1), None)) >>

C24_Witness ==
    /\ ClaudeHappyPath
    /\ Len(out) = 4
    /\ out[4].ev.type = "result" /\ is_none(out[4].ev.usage)

---------------------------------------------------------------------------
(* C25 *)

\* the delivered Results whose usage has a cost and whose total_cost_usd
\* the adapter left unset
CostOnlyInUsage ==
    {k \in 1..Len(out) :
        /\ out[k].ok /\ out[k].ev.type = "result" /\ origin[k] > 0
        /\ is_some(out[k].ev.usage)
        /\ is_some(unwrap(out[k].ev.usage).cost_usd)
        /\ is_none(raw[origin[k]].ev.total_cost_usd)}

(* C25: whenever a delivered Result has usage.cost_usd present and the     *)
(* adapter left total_cost_usd unset, the delivered total_cost_usd equals  *)
(* usage.cost_usd.                                                         *)
C25_TotalCostFromUsage ==
    \A k \in CostOnlyInUsage :
       out[k].ev.total_cost_usd = unwrap(out[k].ev.usage).cost_usd

C25_Witness ==
    \E k \in CostOnlyInUsage :
       /\ is_some(out[k].ev.total_cost_usd)
       /\ out[k].ev.usage = raw[origin[k]].ev.usage

---------------------------------------------------------------------------
(* event.rs: the serde derives of Event, through serde_json::to_string and *)
(* serde_json::from_str.  A JSON value is a token: its kind, its text and, *)
(* for an object, its members in order.  args is the Event serialized,     *)
(* locals the JSON text produced, ret the result of parsing it back.       *)
(***************************************************************************)
SerdeMaxNumber == 5

Tok(t, text, fields) == [t |-> t, text |-> text, fields |-> fields]
JNull == Tok("null", "null", <<>>)
JStr(str) == Tok("string", str, <<>>)
JNum(n) == Tok("number", ToString(n), <<>>)
JBool(b) == Tok("bool", IF b THEN "true" ELSE "false", <<>>)
JObj(fields) == Tok("object", "{}", fields)

\* f64: a finite number or one of NaN, +inf, -inf
F64(class, v) == [class |-> class, v |-> v]
NaN == F64("nan", 0)

\* serde_json writes a non-finite float as null
ser_f64(x) ==
    IF x.class = "finite" THEN Tok("number", ToString(x.v) \o ".0", <<>>)
    ELSE JNull

\* #[serde(skip_serializing_if = "Option::is_none")]: o is the Option of
\* the member's token
opt(key, o) == IF is_none(o) THEN <<>> ELSE << <<key, unwrap(o)>> >>

map_str(o) == IF is_none(o) THEN None ELSE Some(JStr(unwrap(o)))
map_u64(o) == IF is_none(o) THEN None ELSE Some(JNum(unwrap(o)))
map_f64(o) == IF is_none(o) THEN None ELSE Some(ser_f64(unwrap(o)))

ser_usage(u) ==
    JObj(opt("input_tokens", map_u64(u.input_tokens))
         \o opt("output_tokens", map_u64(u.output_tokens))
         \o opt("cache_read_tokens", map_u64(u.cache_read_tokens))
         \o opt("cache_creation_tokens", map_u64(u.cache_creation_tokens))
         \o opt("cost_usd", map_f64(u.cost_usd)))

map_usage(o) == IF is_none(o) THEN None ELSE Some(ser_usage(unwrap(o)))

ToolStartEvent(call_id, tool_name, input, ts) ==
    [type |-> "tool_start", call_id |-> call_id, tool_name |-> tool_name,
     input |-> input, timestamp_ms |-> ts]

ToolEndEvent(call_id, tool_name, success, output, usage, ts) ==
    [type |-> "tool_end", call_id |-> call_id, tool_name |-> tool_name,
     success |-> success, output |-> output, usage |-> usage,
     timestamp_ms |-> ts]

\* serde_json::to_string(&event), #[serde(tag = "type", rename_all = "snake_case")]
to_string(e) ==
    LET tag == << <<"type", JStr(e.type)>> >>
        ts  == << <<"timestamp_ms", JNum(e.timestamp_ms)>> >>
    IN  JObj(
        CASE e.type = "session_start" ->
               tag \o << <<"session_id", JStr(e.session_id)>>,
                         <<"agent", JStr(e.agent)>> >>
                   \o opt("model", map_str(e.model))
                   \o opt("cwd", map_str(e.cwd)) \o ts
          [] e.type = "text_delta" ->
               tag \o << <<"text", JStr(e.text)>> >> \o ts
          [] e.type = "message" ->
               tag \o << <<"role", JStr(e.role)>>, <<"text", JStr(e.text)>> >>
                   \o opt("usage", map_usage(e.usage)) \o ts
          [] e.type = "tool_start" ->
               tag \o << <<"call_id", JStr(e.call_id)>>,
                         <<"tool_name", JStr(e.tool_name)>> >>
                   \o opt("input", e.input) \o ts
          [] e.type = "tool_end" ->
               tag \o << <<"call_id", JStr(e.call_id)>>,
                         <<"tool_name", JStr(e.tool_name)>>,
                         <<"success", JBool(e.success)>> >>
                   \o opt("output", map_str(e.output))
                   \o opt("usage", map_usage(e.usage)) \o ts
          [] e.type = "usage_delta" ->
               tag \o << <<"usage", ser_usage(e.usage)>> >> \o ts
          [] e.type = "result" ->
               tag \o << <<"success", JBool(e.success)>>,
                         <<"text", JStr(e.text)>>,
                         <<"session_id", JStr(e.session_id)>> >>
                   \o opt("duration_ms", map_u64(e.duration_ms))
                   \o opt("total_cost_usd", map_f64(e.total_cost_usd))
                   \o opt("usage", map_usage(e.usage)) \o ts
          [] e.type = "error" ->
               tag \o << <<"message", JStr(e.message)>> >>
                   \o opt("code", map_str(e.code)) \o ts)

\* the member of an object with the given key
get(fields, key) ==
    LET idx == {i \in 1..Len(fields) : fields[i][1] = key}
    IN  IF idx = {} THEN None
        ELSE Some(fields[CHOOSE i \in idx : \A j \in idx : i <= j][2])

parse_u64(text) == CHOOSE n \in 0..SerdeMaxNumber : ToString(n) = text

parse_f64(text) ==
    F64("finite", CHOOSE n \in 0..SerdeMaxNumber :
                     text \in {ToString(n), ToString(n) \o ".0"})

\* Option<T>: a missing member and a null member both give None
absent(fields, key) ==
    is_none(get(fields, key)) \/ unwrap(get(fields, key)).t = "null"

de_opt_str(fields, key) ==
    IF absent(fields, key) THEN None ELSE Some(unwrap(get(fields, key)).text)

de_opt_u64(fields, key) ==
    IF absent(fields, key) THEN None
    ELSE Some(parse_u64(unwrap(get(fields, key)).text))

de_opt_f64(fields, key) ==
    IF absent(fields, key) THEN None
    ELSE Some(parse_f64(unwrap(get(fields, key)).text))

\* Option<serde_json::Value>
de_opt_value(fields, key) ==
    IF absent(fields, key) THEN None ELSE get(fields, key)

de_usage(tok) ==
    UsageData(de_opt_u64(tok.fields, "input_tokens"),
              de_opt_u64(tok.fields, "output_tokens"),
              de_opt_u64(tok.fields, "cache_read_tokens"),
              de_opt_u64(tok.fields, "cache_creation_tokens"),
              de_opt_f64(tok.fields, "cost_usd"))

de_opt_usage(fields, key) ==
    IF absent(fields, key) THEN None
    ELSE Some(de_usage(unwrap(get(fields, key))))

de_str(fields, key) == unwrap(get(fields, key)).text
de_bool(fields, key) == unwrap(get(fields, key)).text = "true"

\* #[serde(default)] pub timestamp_ms: u64
de_timestamp(fields) ==
    IF is_none(get(fields, "timestamp_ms")) THEN 0
    ELSE parse_u64(unwrap(get(fields, "timestamp_ms")).text)

\* the members a variant cannot be built without, with their kinds
Required(tag) ==
    CASE tag = "session_start" -> {<<"session_id", "string">>, <<"agent", "string">>}
      [] tag = "text_delta"    -> {<<"text", "string">>}
      [] tag = "message"       -> {<<"role", "string">>, <<"text", "string">>}
      [] tag = "tool_start"    -> {<<"call_id", "string">>, <<"tool_name", "string">>}
      [] tag = "tool_end"      -> {<<"call_id", "string">>, <<"tool_name", "string">>,
                                   <<"success", "bool">>}
      [] tag = "usage_delta"   -> {<<"usage", "object">>}
      [] tag = "result"        -> {<<"success", "bool">>, <<"text", "string">>,
                                   <<"session_id", "string">>}
      [] tag = "error"         -> {<<"message", "string">>}

EventTags == {"session_start", "text_delta", "message", "tool_start",
              "tool_end", "usage_delta", "result", "error"}

\* serde_json::from_str::<Event>(&json)
from_str(json) ==
    LET f == json.fields
        tag == de_str(f, "type")
    IN  IF \/ json.t # "object"
           \/ is_none(get(f, "type"))
           \/ unwrap(get(f, "type")).t # "string"
        THEN Err("Json")
        ELSE IF \/ tag \notin EventTags
                \/ \E r \in Required(tag) :
                      \/ is_none(get(f, r[1]))
                      \/ unwrap(get(f, r[1])).t # r[2]
        THEN Err("Json")
        ELSE Ok(
          CASE tag = "session_start" ->
                 [SessionStart(de_str(f, "session_id"), de_str(f, "agent"),
                               de_opt_str(f, "model"), de_opt_str(f, "cwd"))
                    EXCEPT !.timestamp_ms = de_timestamp(f)]
            [] tag = "text_delta" ->
                 [TextDelta(de_str(f, "text"))
                    EXCEPT !.timestamp_ms = de_timestamp(f)]
            [] tag = "message" ->
                 [Message(de_str(f, "role"), de_str(f, "text"))
                    EXCEPT !.usage = de_opt_usage(f, "usage"),
                           !.timestamp_ms = de_timestamp(f)]
            [] tag = "tool_start" ->
                 ToolStartEvent(de_str(f, "call_id"), de_str(f, "tool_name"),
                                de_opt_value(f, "input"), de_timestamp(f))
            [] tag = "tool_end" ->
                 ToolEndEvent(de_str(f, "call_id"), de_str(f, "tool_name"),
                              de_bool(f, "success"), de_opt_str(f, "output"),
                              de_opt_usage(f, "usage"), de_timestamp(f))
            [] tag = "usage_delta" ->
                 [UsageDelta(de_usage(unwrap(get(f, "usage"))))
                    EXCEPT !.timestamp_ms = de_timestamp(f)]
            [] tag = "result" ->
                 [ResultEvent(de_bool(f, "success"), de_str(f, "text"),
                              de_str(f, "session_id"),
                              de_opt_u64(f, "duration_ms"),
                              de_opt_f64(f, "total_cost_usd"),
                              de_opt_usage(f, "usage"))
                    EXCEPT !.timestamp_ms = de_timestamp(f)]
            [] tag = "error" ->
                 [ErrorEvent(de_str(f, "message"), de_opt_str(f, "code"))
                    EXCEPT !.timestamp_ms = de_timestamp(f)])

\* the Event values serialized
SerdeStamps == {0, 1}
SerdeCosts == {None, Some(F64("finite", 1)), Some(NaN)}
SerdeUsage ==
    [input_tokens : {None, Some(1)}, output_tokens : {None, Some(2)},
     cache_read_tokens : {None, Some(3)},
     cache_creation_tokens : {None, Some(0)}, cost_usd : SerdeCosts]
SerdeOptUsage == {None} \cup {Some(u) : u \in SerdeUsage}
SerdeValues == {JNull, JStr("ls"), JObj(<< <<"command", JStr("ls")>> >>)}

SerdeEvents ==
    [type : {"session_start"}, session_id : {"s1"}, agent : {"claude"},
     model : {None, Some("m")}, cwd : {None, Some("/tmp")},
     timestamp_ms : SerdeStamps]
    \cup [type : {"text_delta"}, text : {"", "d"}, timestamp_ms : SerdeStamps]
    \cup [type : {"message"}, role : {"assistant", "user", "system"},
          text : {"a"}, usage : SerdeOptUsage, timestamp_ms : SerdeStamps]
    \cup [type : {"tool_start"}, call_id : {"t1"}, tool_name : {"Bash"},
          input : {None} \cup {Some(v) : v \in SerdeValues},
          timestamp_ms : SerdeStamps]
    \cup [type : {"tool_end"}, call_id : {"t1"}, tool_name : {"Bash"},
          success : BOOLEAN, output : {None, Some("out")},
          usage : SerdeOptUsage, timestamp_ms : SerdeStamps]
    \cup [type : {"usage_delta"}, usage : SerdeUsage,
          timestamp_ms : SerdeStamps]
    \cup [type : {"result"}, success : BOOLEAN, text : {"r"},
          session_id : {"s1"}, duration_ms : {None, Some(5)},
          total_cost_usd : SerdeCosts, usage : SerdeOptUsage,
          timestamp_ms : SerdeStamps]
    \cup [type : {"error"}, message : {"boom"}, code : {None, Some("E")},
          timestamp_ms : SerdeStamps]

SerdeInit ==
    /\ DataIdle /\ SupIdle
    /\ args \in SerdeEvents
    /\ locals = [pc |-> "to_string", json |-> None]
    /\ ret = None

ToJson ==
    /\ locals.pc = "to_string"
    /\ locals' = [pc |-> "from_str", json |-> Some(to_string(args))]
    /\ UNCHANGED <<data, sup, args, ret>>

FromJson ==
    /\ locals.pc = "from_str"
    /\ ret' = Some(from_str(unwrap(locals.json)))
    /\ locals' = [locals EXCEPT !.pc = "done"]
    /\ UNCHANGED <<data, sup, args>>

SerdeNext ==
    \/ ToJson
    \/ FromJson

SerdeSpec == SerdeInit /\ [][SerdeNext]_vars

(* C26: for every Event value of every variant, serializing it to JSON and *)
(* deserializing that JSON gives back an equal Event, optional fields and  *)
(* timestamp_ms included.                                                  *)
C26_RoundTripLossless ==
    is_some(ret) => unwrap(ret).ok /\ unwrap(ret).ev = args

---------------------------------------------------------------------------
(* build_args of the Codex, Cursor and OpenCode runners, and the command   *)
(* line spawn_and_stream makes of it.  args is the TaskConfig, locals the  *)
(* argument vector handed to the command, ret the result of build_args.    *)
(***************************************************************************)
MaxExtraArgs == 2

PositionalAgents == {"codex", "cursor", "opencode"}

BuildConfigs ==
    [agent : PositionalAgents, prompt : {"P", "--json"},
     model : {None, Some("m")},
     permission_mode : {"FullAccess", "ReadOnly"},
     extra_args : SeqsUpTo({"--x", "P"}, MaxExtraArgs)]

model_args(config) ==
    IF is_some(config.model) THEN <<"--model", unwrap(config.model)>> ELSE <<>>

\* a Codex command line with the prompt ahead of the extra arguments
codex_build_args_prompt_early(config) ==
    <<"exec", "--json">> \o model_args(config)
       \o (IF config.permission_mode = "FullAccess"
           THEN <<"--sandbox", "danger-full-access",
                  "--dangerously-bypass-approvals-and-sandbox">>
           ELSE <<"--sandbox", "read-only">>)
       \o <<config.prompt>>
       \o config.extra_args

codex_build_args(config) ==
    <<"exec", "--json">> \o model_args(config)
       \o (IF config.permission_mode = "FullAccess"
           THEN <<"--sandbox", "danger-full-access",
                  "--dangerously-bypass-approvals-and-sandbox">>
           ELSE <<"--sandbox", "read-only">>)
       \o config.extra_args
       \o <<config.prompt>>

cursor_build_args(config) ==
    <<"-p", "--output-format", "stream-json">> \o model_args(config)
       \o (IF config.permission_mode = "FullAccess"
           THEN <<"--force">> ELSE <<"--mode", "plan">>)
       \o config.extra_args
       \o <<config.prompt>>

opencode_build_args(config) ==
    <<"run", "--format", "json">> \o model_args(config)
       \o (IF config.permission_mode = "FullAccess"
           THEN <<>> ELSE <<"--agent", "plan">>)
       \o config.extra_args
       \o <<config.prompt>>

build_args(config) ==
    CASE config.agent = "codex"    -> codex_build_args(config)
      [] config.agent = "cursor"   -> cursor_build_args(config)
      [] config.agent = "opencode" -> opencode_build_args(config)

BuildInit ==
    /\ DataIdle /\ SupIdle
    /\ args \in BuildConfigs
    /\ locals = [pc |-> "build_args", argv |-> <<>>]
    /\ ret = None

\* let args = runner.build_args(config);
BuildArgs ==
    /\ locals.pc = "build_args"
    /\ ret' = Some(build_args(args))
    /\ locals' = [locals EXCEPT !.pc = "command"]
    /\ UNCHANGED <<data, sup, args>>

\* Command::new(&binary).args(&args)
CommandArgs ==
    /\ locals.pc = "command"
    /\ locals' = [pc |-> "spawn", argv |-> <<"binary">> \o unwrap(ret)]
    /\ UNCHANGED <<data, sup, args, ret>>

BuildNext ==
    \/ BuildArgs
    \/ CommandArgs

BuildSpec == BuildInit /\ [][BuildNext]_vars

(* C27: for Codex, Cursor and OpenCode the prompt is the last argument of  *)
(* the command line, right after the extra arguments, whatever the model,  *)
(* the permission mode and the extra arguments are.                        *)
C27_PromptLast ==
    /\ is_some(ret) =>
         LET a == unwrap(ret)
             n == Len(a)
         IN  /\ a[n] = args.prompt
             /\ SubSeq(a, n - Len(args.extra_args), n - 1) = args.extra_args
    /\ locals.pc = "spawn" =>
         /\ Last(locals.argv) = args.prompt
         /\ Tail(locals.argv) = unwrap(ret)

C27_Witness ==
    /\ locals.pc = "spawn"
    /\ args.agent = "codex"
    /\ args.prompt = "P" /\ args.extra_args = <<"P", "--x">>
    /\ is_some(args.model) /\ args.permission_mode = "ReadOnly"
    /\ Last(locals.argv) = "P"

---------------------------------------------------------------------------
(* normalize.rs: normalize_stream on its own, over any inner stream.  The  *)
(* items fed are drawn from NormItems; raw is the inner stream so far, out *)
(* what the normalized stream has yielded, origin[k] the index in raw of   *)
(* the item out[k] was made of (0 for an event the normalizer made up).    *)
(***************************************************************************)
MaxItems == 3

At(e, ts) == [e EXCEPT !.timestamp_ms = ts]

NormUsage == UsageData(Some(1), Some(1), None, None, Some(1))

NormItems ==
    { Ok(At(SessionStart("s1", "claude", None, None), 1)),
      Ok(At(SessionStart("s2", "claude", Some("m"), Some("/tmp")), 1)),
      Ok(At(Message("user", "u"), 1)),
      Ok(At(Message("assistant", "a"), 1)),
      Ok(At(Message("assistant", ""), 2)),
      Ok(At(Message("system", "x"), 1)),
      Ok(At(TextDelta("d"), 1)),
      Ok(At(ToolStart("t1", "Bash"), 2)),
      Ok(At(ToolEnd("t1", "Bash", TRUE), 2)),
      Ok(At(UsageDelta(NormUsage), 1)),
      Ok(At(ResultEvent(TRUE, "", "", None, None, None), 2)),
      Ok(At(ResultEvent(TRUE, "r", "s1", Some(5), Some(1), Some(NormUsage)), 2)),
      Ok(At(ErrorEvent("boom", None), 1)),
      Err("Io"), Err("ParseError"), Err("ProcessFailed") }

NormInit ==
    /\ agent = "claude" /\ transcript = <<>> /\ pending = <<>> /\ clock = 1
    /\ raw = <<>>
    /\ state \in {NormalizeState(Some("/cwd"), Some("fm"), p) : p \in {None, Some("P")}}
    /\ out = <<>> /\ origin = <<>>
    /\ cancelRequested = FALSE /\ endedBy = "none" /\ phase = "reading"
    /\ SupIdle /\ AuxIdle

\* the inner stream yields an item: the scan closure runs on it
Feed(item) ==
    /\ phase = "reading"
    /\ Len(raw) < MaxItems
    /\ Deliver(item)
    /\ UNCHANGED <<agent, transcript, pending, clock, cancelRequested,
                   endedBy, phase, sup, aux>>

\* the inner stream ends, and the normalized stream with it
InnerEnds ==
    /\ phase = "reading"
    /\ phase' = "closed"
    /\ endedBy' = "eof"
    /\ UNCHANGED <<agent, transcript, pending, clock, raw, state, out, origin,
                   cancelRequested, sup, aux>>

NormNext ==
    \/ \E item \in NormItems : Feed(item)
    \/ InnerEnds

NormSpec == NormInit /\ [][NormNext]_vars

\* the state of the scan after a whole stream
RECURSIVE normalize_state(_, _)
normalize_state(items, st) ==
    IF items = <<>> THEN st
    ELSE normalize_state(Tail(items), normalize_item(st, Head(items)).state)

FreshState == NormalizeState(state.cwd, state.model, state.prompt)

IsEmptyAssistant(item) == IsAssistantMsg(item) /\ item.ev.text = ""

---------------------------------------------------------------------------
(* C29 *)

\* the places of out that hold an item the normalizer received
Forwarded == {k \in 1..Len(out) : origin[k] > 0}

\* o is the received item r, with nothing but unset fields filled in
Preserved(r, o) ==
    IF ~r.ok THEN o = r
    ELSE /\ o.ok
         /\ CASE r.ev.type = "session_start" ->
                   /\ o.ev = [r.ev EXCEPT !.model = o.ev.model, !.cwd = o.ev.cwd]
                   /\ is_some(r.ev.model) => o.ev.model = r.ev.model
                   /\ is_some(r.ev.cwd) => o.ev.cwd = r.ev.cwd
              [] r.ev.type = "result" ->
                   /\ o.ev = [r.ev EXCEPT !.text = o.ev.text,
                                          !.session_id = o.ev.session_id,
                                          !.duration_ms = o.ev.duration_ms,
                                          !.usage = o.ev.usage,
                                          !.total_cost_usd = o.ev.total_cost_usd]
                   /\ r.ev.text # "" => o.ev.text = r.ev.text
                   /\ r.ev.session_id # "" => o.ev.session_id = r.ev.session_id
                   /\ is_some(r.ev.duration_ms) => o.ev.duration_ms = r.ev.duration_ms
                   /\ is_some(r.ev.usage) => o.ev.usage = r.ev.usage
                   /\ is_some(r.ev.total_cost_usd)
                         => o.ev.total_cost_usd = r.ev.total_cost_usd
              [] OTHER -> o.ev = r.ev

(* C29: every item the normalizer receives appears in its output, in the   *)
(* order received: the output is the received items, each unchanged but    *)
(* for unset fields that were filled, with made-up events in between.      *)
C29_NothingRemoved ==
    /\ \A i \in 1..Len(raw) : \E k \in Forwarded : origin[k] = i
    /\ \A k, l \in Forwarded : k < l => origin[k] < origin[l]
    /\ \A k \in Forwarded : Preserved(raw[origin[k]], out[k])
    /\ \A k \in 1..Len(out) :
          origin[k] = 0 => out[k].ok /\ out[k].ev.type \in {"message", "usage_delta"}

C29_Witness ==
    /\ Len(raw) = 3 /\ Len(out) = 5
    /\ IsRaw(1, "session_start") /\ IsEmptyAssistant(raw[2]) /\ IsRaw(3, "result")
    /\ is_none(raw[1].ev.model) /\ is_some(out[1].ev.model)
    /\ origin = <<1, 0, 2, 0, 3>>

---------------------------------------------------------------------------
(* C30 *)

(* C30: an error item is forwarded unchanged at the position it was        *)
(* received, and has no effect on the normalizer: the events around it     *)
(* come out, and the state is, as if the error items had not been in the   *)
(* stream (no made-up user message for it, no change to later filling).    *)
C30_ErrorsPassThrough ==
    /\ \A k \in 1..Len(out) :
          ~out[k].ok =>
             /\ origin[k] > 0
             /\ out[k] = raw[origin[k]]
             /\ SubSeq(out, 1, k - 1)
                   = normalize_stream(SubSeq(raw, 1, origin[k] - 1), FreshState)
    /\ \A i \in 1..Len(raw) :
          ~raw[i].ok => \E k \in 1..Len(out) : origin[k] = i /\ out[k] = raw[i]
    /\ OutEvents = normalize_stream(RawEvents, FreshState)
    /\ state = normalize_state(RawEvents, FreshState)

C30_Witness ==
    /\ is_some(state.prompt)
    /\ Len(raw) = 3
    /\ ~raw[1].ok
    /\ IsRaw(2, "message") /\ raw[2].ev.role = "assistant" /\ raw[2].ev.text = "a"
    /\ IsRaw(3, "result") /\ raw[3].ev.text = ""
    /\ Len(out) = 4
    /\ out[1] = raw[1] /\ IsUserMsg(out[2]) /\ origin[2] = 0
    /\ out[4].ev.text = "a"

---------------------------------------------------------------------------
(* C31 *)

IsProcessFailed(it) == ~it.item.ok /\ it.item.err = "ProcessFailed"

(* C31: if cancellation was requested at any time before the stream ends,  *)
(* no ProcessFailed item is delivered: the reader task never sends a       *)
(* ProcessFailed item into the channel while the token is cancelled.       *)
C31_NoProcessFailedAfterCancel ==
    [][(Len(sent') = Len(sent) + 1 /\ IsProcessFailed(sent'[Len(sent')]))
          => ~token]_vars


(* C32 *)
\* The collector task has returned (or panicked): the read end of the
\* stderr pipe is dropped with it.
CollectorEnded == locals.pc \in {"done", "panicked"}

(* C32: the supervisor keeps consuming the child's stderr until EOF: the   *)
(* collector ends only once it has read every line the child writes,       *)
(* including the lines beyond the 64 KiB cap.                              *)
C32_StderrReadToEof ==
    CollectorEnded => locals.read = Len(args)


(* C33 *)
ChildGone == child = "exited" /\ stdout = "closed"

(* C33: with a consumer that keeps reading and no cancellation, once the   *)
(* child has exited and its stdout is at EOF, the stream ends, for zero    *)
(* and non-zero exit codes alike.                                          *)
C33_ExitEndsStream ==
    ChildGone ~> (StreamEnded \/ token \/ rx = "dropped")


(* C34 *)
TaskFinished == pc = "done"

(* C34: on every path by which the reader task ends, the process-group     *)
(* kill routine has taken effect exactly once by the time the task has     *)
(* finished: the guard is marked killed, and no signal was sent twice.     *)
C34_KilledOnceAtTaskEnd ==
    TaskFinished => (killed /\ term_sent <= 1 /\ kill_sent <= 1)

\* The task ended through the cancellation branch while the child was
\* still running: the one SIGTERM was sent.
C34_Witness ==
    /\ TaskFinished /\ token /\ killed
    /\ term_sent = 1


---------------------------------------------------------------------------
(* C35 *)

\* the places of out that hold a Result the normalizer received
ForwardedResults ==
    {k \in Forwarded : raw[origin[k]].ok /\ raw[origin[k]].ev.type = "result"}

(* C35: the normalizer never overwrites a field already set on a Result it *)
(* receives: a non-empty text, a non-empty session_id, a present           *)
(* duration_ms, a present usage and a present total_cost_usd come out      *)
(* exactly as received.                                                    *)
C35_SetFieldsKept ==
    \A k \in ForwardedResults :
       LET r == raw[origin[k]].ev
           o == out[k].ev
       IN  /\ out[k].ok /\ o.type = "result"
           /\ r.text # "" => o.text = r.text
           /\ r.session_id # "" => o.session_id = r.session_id
           /\ is_some(r.duration_ms) => o.duration_ms = r.duration_ms
           /\ is_some(r.usage) => o.usage = r.usage
           /\ is_some(r.total_cost_usd) => o.total_cost_usd = r.total_cost_usd

\* A Result with every field set comes out unchanged after a SessionStart
\* with another session id and an assistant message with another text.
C35_Witness ==
    /\ Len(raw) = 3
    /\ IsRaw(1, "session_start") /\ raw[1].ev.session_id = "s2"
    /\ IsRaw(2, "message") /\ raw[2].ev.role = "assistant" /\ raw[2].ev.text = "a"
    /\ IsRaw(3, "result") /\ raw[3].ev.text = "r" /\ raw[3].ev.session_id = "s1"
    /\ is_some(raw[3].ev.duration_ms) /\ is_some(raw[3].ev.usage)
    /\ is_some(raw[3].ev.total_cost_usd)
    /\ state.session_id = "s2" /\ state.last_assistant_text = "a"
    /\ out[Len(out)] = raw[3]


---------------------------------------------------------------------------
(* C36 *)

IsStepFinish(line) == IsType(line, "step_finish")
IsStopStep(line) == IsStepFinish(line) /\ line.reason = Some("stop")

StopSteps == {i \in 1..Len(transcript) : IsStopStep(transcript[i])}

\* the Results among the parse results of the lines read so far: those
\* sent into the channel and those of the current line still to be sent
ParsedResults ==
    Cardinality({i \in 1..Len(raw) : raw[i].ok /\ raw[i].ev.type = "result"})
      + Cardinality({i \in 1..Len(pending) :
                        pending[i].ok /\ pending[i].ev.type = "result"})

(* C36: for OpenCode, a step_finish line yields a Result iff its reason is *)
(* "stop"; a step_finish with another reason yields at most a UsageDelta,  *)
(* so a run of several steps has a Result only for its stop steps.         *)
C36_ResultOnlyAtStop ==
    agent = "opencode" =>
       /\ \A i \in 1..Len(transcript) :
             LET line   == transcript[i]
                 events == parse_line(agent, line)
             IN  IsStepFinish(line) =>
                    /\ (\E j \in 1..Len(events) :
                           events[j].ok /\ events[j].ev.type = "result")
                          <=> IsStopStep(line)
                    /\ ~IsStopStep(line) =>
                          /\ Len(events) <= 1
                          /\ \A j \in 1..Len(events) :
                                events[j].ok /\ events[j].ev.type = "usage_delta"
       /\ ParsedResults = Cardinality(StopSteps)

\* Two tool-calls steps and then the stop step: one Result, at the end.
C36_Witness ==
    /\ agent = "opencode"
    /\ Len(transcript) = 3 /\ pending = <<>>
    /\ transcript[1] = OcFinishTools /\ transcript[2] = OcFinishTools
    /\ transcript[3] = OcFinishStop
    /\ ParsedResults = 1
    /\ raw[Len(raw)].ok /\ raw[Len(raw)].ev.type = "result"


---------------------------------------------------------------------------
(* C37 *)

\* the SessionStarts and the assistant messages with text received before
\* the item at place i of raw
StartsBefore(i) ==
    {j \in 1..(i - 1) : raw[j].ok /\ raw[j].ev.type = "session_start"}
AssistantTextsBefore(i) ==
    {j \in 1..(i - 1) : IsAssistantMsg(raw[j]) /\ raw[j].ev.text # ""}

Latest(S) == CHOOSE j \in S : \A l \in S : l <= j

\* the places of out that hold the Result of a turn.completed line
TurnResults ==
    {k \in 1..Len(out) : /\ origin[k] > 0
                         /\ raw[origin[k]].ok
                         /\ raw[origin[k]].ev.type = "result"
                         /\ raw[origin[k]].ev.text = ""
                         /\ raw[origin[k]].ev.session_id = ""}

(* C37: for Codex, the Result of a turn.completed line, emitted with empty *)
(* text and session_id, reaches the consumer with the thread id of the     *)
(* thread.started line before it as its session_id, and with the text of   *)
(* the most recent non-empty assistant message before it as its text.      *)
C37_CodexResultFilled ==
    agent = "codex" =>
       \A k \in TurnResults :
          LET i == origin[k] IN
          /\ out[k].ok /\ out[k].ev.type = "result"
          /\ StartsBefore(i) # {}
                => out[k].ev.session_id = raw[Latest(StartsBefore(i))].ev.session_id
          /\ AssistantTextsBefore(i) # {}
                => out[k].ev.text = raw[Latest(AssistantTextsBefore(i))].ev.text

\* thread.started, an agent message, turn.completed: the Result comes out
\* with the thread id and the text of the message.
C37_Witness ==
    /\ agent = "codex"
    /\ transcript = <<CxStarted, CxAgentMessage, CxTurnCompleted>>
    /\ pending = <<>>
    /\ \E k \in TurnResults :
          out[k].ev.session_id = "s1" /\ out[k].ev.text = "a"


---------------------------------------------------------------------------
(* C38 *)

Earliest(S) == CHOOSE j \in S : \A l \in S : j <= l

\* the places of out that hold a Result received with an empty session_id
UnsetSessionResults ==
    {k \in ForwardedResults : raw[origin[k]].ev.session_id = ""}

(* C38: the session_id that fills an empty Result.session_id is the one of *)
(* the first SessionStart of the stream, empty if there was none; later    *)
(* SessionStart events do not change it.                                   *)
C38_FirstSessionIdFills ==
    \A k \in UnsetSessionResults :
       LET starts == StartsBefore(origin[k]) IN
       out[k].ev.session_id
          = IF starts = {} THEN "" ELSE raw[Earliest(starts)].ev.session_id


---------------------------------------------------------------------------
(* main.rs: run_headless, the run command of the CLI.  It consumes the     *)
(* normalized stream of run_task_with_cancel: each poll of the stream runs *)
(* the normalizer on the next item of the inner stream, and the loop body  *)
(* runs on what it yields.  args is the part of the TaskConfig that        *)
(* matters for the exit code, locals the variables the loop tracks, ret    *)
(* the ExitCode returned.  The output format only chooses what is printed. *)
(***************************************************************************)
RunItems ==
    NormItems \cup
    { Ok(At(ResultEvent(FALSE, "", "", None, None, None), 2)),
      Ok(At(ResultEvent(FALSE, "r", "s1", None, None, None), 2)) }

RunInit ==
    /\ agent = "claude" /\ transcript = <<>> /\ pending = <<>> /\ clock = 1
    /\ raw = <<>>
    /\ state \in {NormalizeState(Some("/cwd"), Some("fm"), p) : p \in {None, Some("P")}}
    /\ out = <<>> /\ origin = <<>>
    /\ cancelRequested = FALSE /\ endedBy = "none" /\ phase = "reading"
    /\ SupIdle
    /\ args \in [timeout_secs : {None, Some(1)}]
    /\ locals = [pc |-> "run_task", success |-> FALSE, final_text |-> ""]
    /\ ret = None

\* run_task_with_cancel returns Ok(handle), or Err(e): return FAILURE
RunTask(launched) ==
    /\ locals.pc = "run_task"
    /\ IF launched
       THEN locals' = [locals EXCEPT !.pc = "loop"] /\ UNCHANGED ret
       ELSE locals' = [locals EXCEPT !.pc = "returned"] /\ ret' = Some(1)
    /\ UNCHANGED <<data, sup, args>>

\* "Track final result and usage", as far as the exit code depends on it
track_final_result(l, event) ==
    CASE event.type = "result" ->
           [l EXCEPT !.success = event.success, !.final_text = event.text]
      [] event.type = "message" /\ event.role = "assistant" ->
           [l EXCEPT !.final_text = event.text]
      [] OTHER -> l

\* the body of `while let Some(result) = stream.next().await` on the items
\* one poll of the inner stream gives rise to, up to the break
RECURSIVE process_items(_, _)
process_items(l, items) ==
    IF items = <<>> THEN l
    ELSE IF Head(items).ok
    THEN process_items(track_final_result(l, Head(items).ev), Tail(items))
    ELSE [l EXCEPT !.success = FALSE, !.pc = "finalize"]

\* the inner stream yields an item
StreamNext(item) ==
    /\ locals.pc = "loop"
    /\ phase = "reading"
    /\ Len(raw) < MaxItems
    /\ Deliver(item)
    /\ locals' = process_items(locals, normalize_item(state, item).items)
    /\ UNCHANGED <<agent, transcript, pending, clock, cancelRequested, endedBy,
                   phase, sup, args, ret>>

\* stream.next() yields None: the loop ends
StreamEnds ==
    /\ locals.pc = "loop"
    /\ phase = "reading"
    /\ phase' = "closed" /\ endedBy' = "eof"
    /\ locals' = [locals EXCEPT !.pc = "finalize"]
    /\ UNCHANGED <<agent, transcript, pending, clock, raw, state, out, origin,
                   cancelRequested, sup, args, ret>>

\* mutant: the timeout cancels the run and leaves success as it was
Timeout_keeps_success ==
    /\ locals.pc = "loop"
    /\ is_some(args.timeout_secs)
    /\ cancelRequested' = TRUE
    /\ phase' = "closed" /\ endedBy' = "cancel"
    /\ locals' = [locals EXCEPT !.pc = "finalize"]
    /\ UNCHANGED <<agent, transcript, pending, clock, raw, state, out, origin,
                   sup, args, ret>>

\* tokio::time::timeout(..., process) elapses while the loop waits for the
\* stream: cancel_for_timeout.cancel(), success = false
Timeout ==
    /\ locals.pc = "loop"
    /\ is_some(args.timeout_secs)
    /\ cancelRequested' = TRUE
    /\ phase' = "closed" /\ endedBy' = "cancel"
    /\ locals' = [locals EXCEPT !.pc = "finalize", !.success = FALSE]
    /\ UNCHANGED <<agent, transcript, pending, clock, raw, state, out, origin,
                   sup, args, ret>>

\* the ExitCode at the end of run_headless
exit_code(l) ==
    IF l.success THEN 0
    ELSE IF l.final_text # "" THEN 0 ELSE 1

ReturnExitCode ==
    /\ locals.pc = "finalize"
    /\ ret' = Some(exit_code(locals))
    /\ locals' = [locals EXCEPT !.pc = "returned"]
    /\ UNCHANGED <<data, sup, args>>

RunNext ==
    \/ \E launched \in BOOLEAN : RunTask(launched)
    \/ \E item \in RunItems : StreamNext(item)
    \/ StreamEnds
    \/ Timeout
    \/ ReturnExitCode

RunSpec == RunInit /\ [][RunNext]_vars

(* C39 *)

\* the consumer's loop was ended by an error item of the stream
BrokeOnError == out # <<>> /\ ~out[Len(out)].ok

\* the run was ended by the timeout
TimedOut == cancelRequested

\* the Results, and the texts (of assistant messages and Results), the
\* stream has delivered
ResultsOut == {k \in 1..Len(out) : out[k].ok /\ out[k].ev.type = "result"}
TextsOut == {k \in 1..Len(out) : IsAssistantMsg(out[k])} \cup ResultsOut

FailedResult == ResultsOut # {} /\ ~out[Latest(ResultsOut)].ev.success

EndedInError == BrokeOnError \/ TimedOut \/ FailedResult

\* the final text surfaced so far: the latest one delivered
SurfacedFinalText ==
    IF TextsOut = {} THEN "" ELSE out[Latest(TextsOut)].ev.text

(* C39: the run command exits with a non-zero code whenever the run ended  *)
(* in an error (an error item of the stream, the timeout, or a Result with *)
(* success = false), unless a non-empty final text had been surfaced, in   *)
(* which case it exits with 0.                                             *)
C39_ExitCodeOnError ==
    (is_some(ret) /\ EndedInError) =>
       (unwrap(ret) = 0 <=> SurfacedFinalText # "")

\* An error item ends the loop after a text delta was printed and no
\* assistant message or Result was delivered: the exit code is 1.
C39_Witness ==
    /\ ret = Some(1)
    /\ BrokeOnError /\ ~TimedOut
    /\ Len(out) >= 2 /\ out[1].ok /\ out[1].ev.type = "text_delta"
    /\ SurfacedFinalText = ""

====
